---- MODULE Spec2Model ----
(***************************************************************************)
(* Fresnel App Engine service: the /seed and /sign endpoints               *)
(* (appengine/endpoints/seed.go and sign.go) and the data they exchange    *)
(* (models/models.go).                                                     *)
(*                                                                         *)
(* Strings whose length or characters the code inspects are sequences of   *)
(* one-character strings.  A []byte is a record [nil, data]: Go tells a    *)
(* nil slice from an empty one when it serialises it.  Times are integers  *)
(* (hours); an error is the kind of the error, "nil" for no error.         *)
(***************************************************************************)
EXTENDS Integers, Sequences, FiniteSets, TLC

VARIABLES
    now,        \* the clock read by time.Now()
    bucket,     \* the remote object appengine_config/pe_allowlist.yaml
    signer,     \* the key App Identity signs with at present
    seedFile,   \* the SeedFile the client holds (seed.json), or NoSeedFile
    out,        \* the outcome of the last request handled, either endpoint
    inflight,   \* the requests being handled at once, each with its locals
    install,    \* the installer's writeSeed: its position and its locals
    write       \* the last call of the write command or of the installer

vars == <<now, bucket, signer, seedFile, out, inflight, install, write>>

-----------------------------------------------------------------------------
(* Bounds of the model.                                                    *)

\* The clock runs over 0..MaxTime.
MaxTime == 2

\* Hardware identifiers are a fixed 11-character stem followed by up to
\* MaxTail further characters.
MaxTail == 2

\* The allowlist object lists up to MaxEntries entries.
MaxEntries == 2

\* App Identity returns, and a seed embeds, up to MaxCerts certificates.
MaxCerts == 2

\* Up to MaxHandlers requests are handled at the same time.
MaxHandlers == 2

\* The write command is given up to MaxArgs device identifiers, and
\* Finalize up to MaxArgs devices.
MaxArgs == 2

-----------------------------------------------------------------------------
(* Characters, strings and byte slices.                                    *)

Digits == {"0", "1", "2", "3", "4", "5", "6", "7", "8", "9"}
LowerHex == {"a", "b", "c", "d", "e", "f"}
UpperHex == {"A", "B", "C", "D", "E", "F"}

\* strings.Replace(s, old, "", -1) for a one-character old.
RECURSIVE Replace(_, _)
Replace(s, old) ==
    IF s = <<>> THEN <<>>
    ELSE IF Head(s) = old THEN Replace(Tail(s), old)
    ELSE <<Head(s)>> \o Replace(Tail(s), old)

\* strings.ToLower on the characters the model uses.
LowerChar(c) ==
    CASE c = "A" -> "a" [] c = "B" -> "b" [] c = "C" -> "c"
      [] c = "D" -> "d" [] c = "E" -> "e" [] c = "F" -> "f"
      [] OTHER -> c

ToLower(s) == [i \in 1..Len(s) |-> LowerChar(s[i])]

NilBytes == [nil |-> TRUE, data |-> <<>>]
Bytes(d) == [nil |-> FALSE, data |-> d]

HexDigit == <<"0", "1", "2", "3", "4", "5", "6", "7",
              "8", "9", "a", "b", "c", "d", "e", "f">>

\* hex.EncodeToString: two lowercase digits per byte; nil encodes as "".
RECURSIVE EncodeToString(_)
EncodeToString(d) ==
    IF d = <<>> THEN <<>>
    ELSE <<HexDigit[(Head(d) \div 16) + 1], HexDigit[(Head(d) % 16) + 1]>>
         \o EncodeToString(Tail(d))

-----------------------------------------------------------------------------
(* models.Seed, appengine.Certificate and the App Identity signer.         *)

\* An appengine.Certificate.  Data stands for the PEM payload: whether it
\* decodes (pem.Decode, x509.ParseCertificate), the kind of public key it
\* holds and which key that is.
Cert(kind, key) == [KeyName |-> key, Data |-> [kind |-> kind, key |-> key]]

Seed(issued, username, certs, hash) ==
    [Issued |-> issued, Username |-> username, Certs |-> certs, Hash |-> hash]

\* json.Marshal of a []byte: null for a nil slice, base64 text otherwise.
MarshalBytes(b) == [null |-> b.nil, b64 |-> b.data]

\* json.Marshal(seed): the fields in declaration order, the time as RFC 3339
\* text, the hash through MarshalBytes.
MarshalSeed(s) ==
    [Issued   |-> <<"rfc3339", s.Issued>>,
     Username |-> s.Username,
     Certs    |-> s.Certs,
     Hash     |-> MarshalBytes(s.Hash)]

\* appengine.SignBytes with the service's private key `key`: a PKCS#1 v1.5
\* signature over the SHA-256 digest of the message.
SignBytes(key, msg) == [key |-> key, msg |-> msg]

\* rsa.VerifyPKCS1v15(pubkey, SHA256, hashed, sig) = nil
VerifyPKCS1v15(pubkey, msg, sig) == sig.key = pubkey /\ sig.msg = msg

\* One iteration of the verification loop: the certificate decodes, holds
\* an RSA public key, and the signature verifies over the marshalled seed.
CertVerifies(cert, seed, sig) ==
    /\ cert.Data.kind = "rsa"
    /\ VerifyPKCS1v15(cert.Data.key, MarshalSeed(seed), sig)

-----------------------------------------------------------------------------
(* The environment (os.Getenv) and the allowlist.                          *)

\* A time.Duration is an int64 count of nanoseconds.  Such a count is held
\* as its 8 bytes in two's complement, least significant first, so that the
\* 64-bit arithmetic of Go is computed as Go computes it.
WordBytes == 8

\* The k low bytes of the natural number n.
RECURSIVE Limbs(_, _)
Limbs(n, k) ==
    IF k = 0 THEN <<>> ELSE <<n % 256>> \o Limbs(n \div 256, k - 1)

\* The sum of a[j] * b[k + 1 - j] over the j in 1..i that have a byte of b.
RECURSIVE ColumnSum(_, _, _, _)
ColumnSum(a, b, k, i) ==
    IF i = 0 THEN 0
    ELSE ColumnSum(a, b, k, i - 1)
         + (IF k + 1 - i \in 1..Len(b) THEN a[i] * b[k + 1 - i] ELSE 0)

\* Column k of the schoolbook product of a and b: the sum of a[i] * b[j]
\* over i + j = k + 1.
Column(a, b, k) == ColumnSum(a, b, k, Len(a))

\* The columns reduced to bytes, carries moved up.
RECURSIVE Carry(_, _)
Carry(cols, c) ==
    IF cols = <<>> THEN <<>>
    ELSE <<(Head(cols) + c) % 256>> \o Carry(Tail(cols), (Head(cols) + c) \div 256)

\* The product of two non-negative counts in full, 2 * WordBytes bytes.
MulWide(a, b) == Carry([k \in 1..(2 * WordBytes) |-> Column(a, b, k)], 0)

\* a * b on int64: the low 64 bits of the product.
Mul64(a, b) == Carry([k \in 1..WordBytes |-> Column(a, b, k)], 0)

\* The product of two non-negative counts does not fit a non-negative int64.
MulOverflows(a, b) ==
    LET w == MulWide(a, b) IN
    \/ w[WordBytes] >= 128
    \/ \E i \in (WordBytes + 1)..(2 * WordBytes) : w[i] # 0

\* -a on int64.
Neg64(a) == Carry([i \in 1..WordBytes |-> 255 - a[i]], 1)

\* The count is negative as an int64.
Negative64(a) == a[WordBytes] >= 128

\* The constants of package time, in nanoseconds, low byte first:
\* Second = 10^9, Minute = 60 * Second, Hour = 60 * Minute.
Nanosecond == Limbs(1, WordBytes)
Second == <<0, 202, 154, 59, 0, 0, 0, 0>>
Minute == <<0, 88, 71, 248, 13, 0, 0, 0>>
Hour == <<0, 160, 184, 48, 70, 3, 0, 0>>

\* time.ParseDuration on the values the model gives the duration settings:
\* ns is the Duration, d the same in whole hours, the unit of the clock.
ParseDuration(s) ==
    CASE s = "1h"  -> [err |-> FALSE, d |-> 1, ns |-> Hour]
      [] s = "-2h" -> [err |-> FALSE, d |-> 0 - 2,
                       ns |-> Neg64(Mul64(Limbs(2, WordBytes), Hour))]
      [] s = "5m"  -> [err |-> FALSE, d |-> 0,
                       ns |-> Mul64(Limbs(5, WordBytes), Minute)]
      [] s = "1ns" -> [err |-> FALSE, d |-> 0, ns |-> Nanosecond]
      [] s = "0s"  -> [err |-> FALSE, d |-> 0, ns |-> Limbs(0, WordBytes)]
      [] OTHER     -> [err |-> TRUE,  d |-> 0, ns |-> Limbs(0, WordBytes)]

\* The entries kept in the letter case of the file.
getAllowlist_CaseKept(obj) ==
    IF obj.state = "missing" THEN [err |-> "bucketFileFinder", keys |-> {}]
    ELSE IF obj.state = "unreadable" THEN [err |-> "read", keys |-> {}]
    ELSE IF obj.state = "badyaml" THEN [err |-> "parse", keys |-> {}]
    ELSE [err |-> "nil",
          keys |-> {obj.entries[i] : i \in 1..Len(obj.entries)}]

\* getAllowlist: open the object, read it, parse the YAML list, lower-case
\* every entry into the keys of a map.
getAllowlist(obj) ==
    IF obj.state = "missing" THEN [err |-> "bucketFileFinder", keys |-> {}]
    ELSE IF obj.state = "unreadable" THEN [err |-> "read", keys |-> {}]
    ELSE IF obj.state = "badyaml" THEN [err |-> "parse", keys |-> {}]
    ELSE [err |-> "nil",
          keys |-> {ToLower(obj.entries[i]) : i \in 1..Len(obj.entries)}]

\* What an earlier call read is handed out again.
bucketFileHandle_Cached(held, obj) == IF held.state = "none" THEN obj ELSE held

\* bucketFileHandle: a new storage client and a new reader on the object at
\* every call, whatever an earlier call read (held): the reader yields the
\* object as it is now.
bucketFileHandle(held, obj) == obj

\* validSignHash: nil when the hex encoding of the hash is a key of the
\* allowlist fetched now.
validSignHash(env, obj, requestHash) ==
    IF env.BUCKET = "" THEN "bucket_unset"
    ELSE LET acceptedHashes == getAllowlist(obj) IN
         IF acceptedHashes.err # "nil" THEN "allowlist"
         ELSE IF EncodeToString(requestHash.data) \in acceptedHashes.keys
              THEN "nil"
              ELSE "hash_not_accepted"

-----------------------------------------------------------------------------
(* /sign: validation of a models.SignRequest.                              *)

\* macRegEx = "([^0-9,a-f,A-F,:])": the characters the negated class lists,
\* which are the three ranges, the comma written between them, and the colon.
macRegExClass == Digits \cup LowerHex \cup UpperHex \cup {",", ":"}

\* regexp.MatchString(macRegEx, s): some character is outside the class.
MatchString(s) == \E i \in 1..Len(s) : s[i] \notin macRegExClass

\* The body of validSignRequest's loop for one Mac.
macError(mac) ==
    LET m == Replace(mac, ":") IN
    IF Len(m) < 12 THEN "mac_short"
    ELSE IF Len(m) > 12 THEN "mac_long"
    ELSE IF MatchString(mac) THEN "mac_invalid"
    ELSE "nil"

\* The loop over sr.Mac: the error of the first Mac that has one.
RECURSIVE macsError(_)
macsError(macs) ==
    IF macs = <<>> THEN "nil"
    ELSE IF macError(Head(macs)) # "nil" THEN macError(Head(macs))
    ELSE macsError(Tail(macs))

\* The seed's own certificates put in front of the current ones.
candidateCerts_EmbeddedFirst(env, ident, seed) ==
    IF env.VERIFY_SEED_SIGNATURE_FALLBACK = "true"
    THEN seed.Certs \o ident.certs
    ELSE ident.certs

\* The certificates validSeedSignature tries, in order: the current public
\* certificates, then the seed's own when the fallback is on.
candidateCerts(env, ident, seed) ==
    IF env.VERIFY_SEED_SIGNATURE_FALLBACK = "true"
    THEN ident.certs \o seed.Certs
    ELSE ident.certs

\* The loop given up at a certificate that does not decode or holds no RSA
\* key.
RECURSIVE verifyWithCerts_SkipFails(_, _, _)
verifyWithCerts_SkipFails(certs, seed, sig) ==
    IF certs = <<>> THEN [ok |-> FALSE, tried |-> <<>>]
    ELSE IF Head(certs).Data.kind # "rsa"
    THEN [ok |-> FALSE, tried |-> <<Head(certs)>>]
    ELSE IF CertVerifies(Head(certs), seed, sig)
    THEN [ok |-> TRUE, tried |-> <<Head(certs)>>]
    ELSE LET r == verifyWithCerts_SkipFails(Tail(certs), seed, sig) IN
         [ok |-> r.ok, tried |-> <<Head(certs)>> \o r.tried]

\* The loop of validSeedSignature over the candidates: it returns at the
\* first certificate that verifies and goes on to the next at any other.
\* tried lists the certificates the loop looked at, in order.
RECURSIVE verifyWithCerts(_, _, _)
verifyWithCerts(certs, seed, sig) ==
    IF certs = <<>> THEN [ok |-> FALSE, tried |-> <<>>]
    ELSE IF CertVerifies(Head(certs), seed, sig)
    THEN [ok |-> TRUE, tried |-> <<Head(certs)>>]
    ELSE LET r == verifyWithCerts(Tail(certs), seed, sig) IN
         [ok |-> r.ok, tried |-> <<Head(certs)>> \o r.tried]

\* The result of rsa.VerifyPKCS1v15 dropped: any RSA certificate passes.
validSeedSignature_Unchecked(env, ident, seed, sig) ==
    IF ident.certErr THEN "public_certificates"
    ELSE LET certs == candidateCerts(env, ident, seed) IN
         IF \E i \in 1..Len(certs) : certs[i].Data.kind = "rsa"
         THEN "nil"
         ELSE "signature"

\* validSeedSignature: nil at the first certificate that verifies.
validSeedSignature(env, ident, seed, sig) ==
    IF ident.certErr THEN "public_certificates"
    ELSE LET certs == candidateCerts(env, ident, seed) IN
         IF verifyWithCerts(certs, seed, sig).ok
         THEN "nil"
         ELSE "signature"

\* Before written for After.
issuedAfterNow_Before(seed, t) == seed.Issued < t

\* seed.Issued.After(now)
issuedAfterNow(seed, t) == seed.Issued > t

\* A seed refused at the instant it expires.
expiresBeforeNow_AtExpiry(expires, t) == expires <= t

\* After written for Before.
expiresBeforeNow_After(expires, t) == expires > t

\* expires.Before(now)
expiresBeforeNow(expires, t) == expires < t

\* The VERIFY_SEED toggle read after the username is checked.
validSeed_GateLate(env, t, ident, seed, sig) ==
    IF Len(seed.Username) < 3
    THEN [err |-> "username", steps |-> <<"identity">>]
    ELSE IF env.VERIFY_SEED # "true" THEN [err |-> "nil", steps |-> <<>>]
    ELSE IF env.SEED_VALIDITY_DURATION = ""
    THEN [err |-> "duration_unset", steps |-> <<"identity", "temporal">>]
    ELSE LET p == ParseDuration(env.SEED_VALIDITY_DURATION)
             expires == seed.Issued + p.d
         IN
         IF p.err
         THEN [err |-> "duration_parse", steps |-> <<"identity", "temporal">>]
         ELSE IF issuedAfterNow(seed, t)
         THEN [err |-> "future", steps |-> <<"identity", "temporal">>]
         ELSE IF expiresBeforeNow(expires, t)
         THEN [err |-> "expired", steps |-> <<"identity", "temporal">>]
         ELSE IF env.VERIFY_SEED_SIGNATURE # "true"
         THEN [err |-> "nil", steps |-> <<"identity", "temporal">>]
         ELSE [err |-> validSeedSignature(env, ident, seed, sig),
               steps |-> <<"identity", "temporal", "signature">>]

\* validSeed.  steps lists the checks it evaluated, in order.
validSeed(env, t, ident, seed, sig) ==
    IF env.VERIFY_SEED # "true" THEN [err |-> "nil", steps |-> <<>>]
    ELSE IF Len(seed.Username) < 3
    THEN [err |-> "username", steps |-> <<"identity">>]
    ELSE IF env.SEED_VALIDITY_DURATION = ""
    THEN [err |-> "duration_unset", steps |-> <<"identity", "temporal">>]
    ELSE LET p == ParseDuration(env.SEED_VALIDITY_DURATION)
             expires == seed.Issued + p.d
         IN
         IF p.err
         THEN [err |-> "duration_parse", steps |-> <<"identity", "temporal">>]
         ELSE IF issuedAfterNow(seed, t)
         THEN [err |-> "future", steps |-> <<"identity", "temporal">>]
         ELSE IF expiresBeforeNow(expires, t)
         THEN [err |-> "expired", steps |-> <<"identity", "temporal">>]
         ELSE IF env.VERIFY_SEED_SIGNATURE # "true"
         THEN [err |-> "nil", steps |-> <<"identity", "temporal">>]
         ELSE [err |-> validSeedSignature(env, ident, seed, sig),
               steps |-> <<"identity", "temporal", "signature">>]

\* Every error of validSignHash returned, whatever the toggle.
hashRejected_Always(herr, hashCheck) == herr # "nil"

\* The toggle compared without regard to letter case.
hashRejected_AnyCase(herr, hashCheck) ==
    herr # "nil" /\ hashCheck \in {"true", "TRUE"}

\* The toggle read the wrong way round.
hashRejected_Inverted(herr, hashCheck) == herr # "nil" /\ hashCheck # "true"

\* err != nil && hashCheck == "true"
hashRejected(herr, hashCheck) == herr # "nil" /\ hashCheck = "true"

\* An off-by-one in the length test.
pathEmpty_OffByOne(sr) == Len(sr.Path) < 0

\* len(sr.Path) < 1
pathEmpty(sr) == Len(sr.Path) < 1

\* The path tested before the seed.
validSignRequest_PathFirst(env, t, obj, ident, sr) ==
    IF macsError(sr.Mac) # "nil"
    THEN [err |-> macsError(sr.Mac), steps |-> <<"mac">>, hashErr |-> "none",
          seedErr |-> "none"]
    ELSE
    LET hashCheck == env.VERIFY_SIGN_HASH
        herr == validSignHash(env, obj, sr.Hash)
    IN
    IF hashRejected(herr, hashCheck)
    THEN [err |-> herr, steps |-> <<"mac", "hash">>, hashErr |-> herr,
          seedErr |-> "none"]
    ELSE IF pathEmpty(sr)
    THEN [err |-> "path", steps |-> <<"mac", "hash", "path">>,
          hashErr |-> herr, seedErr |-> "none"]
    ELSE
    LET seed == [sr.Seed EXCEPT !.Hash = sr.Hash]
        v == validSeed(env, t, ident, seed, sr.Signature)
    IN
    [err |-> v.err, steps |-> <<"mac", "hash", "path">> \o v.steps,
     hashErr |-> herr, seedErr |-> v.err]

\* validSignRequest.  steps lists the checks it evaluated, in order; hashErr
\* and seedErr are what validSignHash and validSeed returned when they were
\* called ("none" otherwise).
validSignRequest(env, t, obj, ident, sr) ==
    IF macsError(sr.Mac) # "nil"
    THEN [err |-> macsError(sr.Mac), steps |-> <<"mac">>, hashErr |-> "none",
          seedErr |-> "none"]
    ELSE
    LET hashCheck == env.VERIFY_SIGN_HASH
        herr == validSignHash(env, obj, sr.Hash)
    IN
    IF hashRejected(herr, hashCheck)
    THEN [err |-> herr, steps |-> <<"mac", "hash">>, hashErr |-> herr,
          seedErr |-> "none"]
    ELSE
    LET seed == [sr.Seed EXCEPT !.Hash = sr.Hash]
        v == validSeed(env, t, ident, seed, sr.Signature)
    IN
    IF v.err # "nil"
    THEN [err |-> v.err, steps |-> <<"mac", "hash">> \o v.steps,
          hashErr |-> herr, seedErr |-> v.err]
    ELSE IF pathEmpty(sr)
    THEN [err |-> "path", steps |-> <<"mac", "hash">> \o v.steps \o <<"path">>,
          hashErr |-> herr, seedErr |-> v.err]
    ELSE [err |-> "nil", steps |-> <<"mac", "hash">> \o v.steps \o <<"path">>,
          hashErr |-> herr, seedErr |-> v.err]

-----------------------------------------------------------------------------
(* models.StatusCode.                                                      *)

StatusSuccess == 0
StatusConfigError == 101
StatusReqUnreadable == 102
StatusJSONError == 103
StatusSignError == 104
StatusSeedError == 105
StatusSeedInvalidHash == 106
StatusInvalidUser == 107

-----------------------------------------------------------------------------
(* /sign: the handler.                                                     *)

\* The zero time.Time, and the time `add` nanoseconds after hour t.
ZeroTime == [t |-> 0, add |-> Limbs(0, WordBytes)]
TimeAdd(t, add) == [t |-> t, add |-> add]

EmptyURL == [empty |-> TRUE, bucket |-> "", file |-> <<>>, Expires |-> ZeroTime]

\* The zero models.SignRequest, returned with a body that does not parse.
ZeroSeed == Seed(0, <<>>, <<>>, NilBytes)
ZeroSignature == [key |-> "none", msg |-> MarshalSeed(ZeroSeed)]
ZeroSignRequest ==
    [Seed |-> ZeroSeed, Signature |-> ZeroSignature, Mac |-> <<>>,
     Path |-> <<>>, Hash |-> NilBytes]

\* time.Minute * duration
expiresAfter(duration) == Mul64(Minute, duration)

\* signedURL: the service account, then storage.SignedURL with Expires set
\* to time.Now().Add(time.Minute * duration).  platform says which of the
\* two calls fails, if any.
signedURL(platform, bucketName, file, duration, t) ==
    IF platform = "service_account"
    THEN [err |-> "service_account", url |-> EmptyURL]
    ELSE IF platform = "signed_url"
    THEN [err |-> "signed_url", url |-> EmptyURL]
    ELSE [err |-> "nil",
          url |-> [empty |-> FALSE, bucket |-> bucketName, file |-> file,
                   Expires |-> TimeAdd(t, expiresAfter(duration))]]

\* unmarshalSignRequest
unmarshalSignRequest(body) ==
    IF body.state = "unreadable"
    THEN [req |-> ZeroSignRequest, code |-> StatusReqUnreadable,
          err |-> "unreadable"]
    ELSE IF body.state = "empty"
    THEN [req |-> ZeroSignRequest, code |-> StatusJSONError, err |-> "empty"]
    ELSE IF body.state = "badjson"
    THEN [req |-> ZeroSignRequest, code |-> StatusJSONError,
          err |-> "unmarshal"]
    ELSE [req |-> body.req, code |-> StatusSuccess, err |-> "nil"]

\* The first Mac of the list that the loop of validSignRequest refuses.
RECURSIVE firstBadMac(_)
firstBadMac(macs) ==
    IF macError(Head(macs)) # "nil" THEN Head(macs)
    ELSE firstBadMac(Tail(macs))

\* The values the error messages of validSignRequest, validSignHash,
\* validSeed and validSeedSignature format into their text (the context and
\* wrapped errors of the platform aside), by kind of error.
signErrorArgs(err, env, t, sr) ==
    CASE err \in {"mac_short", "mac_long"}
           -> <<Replace(firstBadMac(sr.Mac), ":")>>
      [] err = "mac_invalid" -> <<firstBadMac(sr.Mac)>>
      [] err = "hash_not_accepted" -> <<EncodeToString(sr.Hash.data)>>
      [] err = "username" -> <<sr.Seed.Username>>
      [] err = "duration_parse" -> <<env.SEED_VALIDITY_DURATION>>
      [] err = "future" -> <<sr.Seed.Issued>>
      [] err = "expired"
           -> <<sr.Seed.Issued + ParseDuration(env.SEED_VALIDITY_DURATION).d, t>>
      [] err = "signature" -> <<sr.Seed.Issued, sr.Seed.Username>>
      [] OTHER -> <<>>

\* The request shared with validSignRequest, which writes to it.
callerRequest_ByReference(req) == [req EXCEPT !.Seed.Hash = req.Hash]

\* The caller's request after validSignRequest(ctx, req) returns:
\* validSignRequest receives the models.SignRequest by value, so its
\* assignment sr.Seed.Hash = sr.Hash is made to a copy of its own.
callerRequest(req) == req

\* A request refused by validSignRequest is answered with the URL signed
\* for its path all the same.
ProcessSignRequest_SignsRefused(env, t, obj, ident, platform, body, bucketName, duration) ==
    LET u == unmarshalSignRequest(body)
        v == validSignRequest(env, t, obj, ident, u.req)
        s == signedURL(platform, bucketName, u.req.Path, duration, t)
    IN
    IF u.err # "nil"
    THEN [resp |-> [Status |-> u.err, ErrorCode |-> u.code,
                    SignedURL |-> EmptyURL, StatusArgs |-> <<>>],
          req |-> u.req, steps |-> <<>>, validErr |-> "none",
          hashErr |-> "none", seedErr |-> "none", urlCalled |-> FALSE]
    ELSE IF v.err # "nil"
    THEN [resp |-> [Status |-> v.err, ErrorCode |-> StatusSignError,
                    SignedURL |-> s.url,
                    StatusArgs |-> signErrorArgs(v.err, env, t, u.req)],
          req |-> callerRequest(u.req), steps |-> v.steps, validErr |-> v.err,
          hashErr |-> v.hashErr, seedErr |-> v.seedErr, urlCalled |-> FALSE]
    ELSE IF s.err # "nil"
    THEN [resp |-> [Status |-> s.err, ErrorCode |-> StatusSignError,
                    SignedURL |-> EmptyURL, StatusArgs |-> <<>>],
          req |-> callerRequest(u.req), steps |-> v.steps, validErr |-> v.err,
          hashErr |-> v.hashErr, seedErr |-> v.seedErr, urlCalled |-> TRUE]
    ELSE [resp |-> [Status |-> "Success", ErrorCode |-> StatusSuccess,
                    SignedURL |-> s.url, StatusArgs |-> <<>>],
          req |-> callerRequest(u.req), steps |-> v.steps, validErr |-> v.err,
          hashErr |-> v.hashErr, seedErr |-> v.seedErr, urlCalled |-> TRUE]

\* ProcessSignRequest.  Beside the response and the request it returns, the
\* result records the checks evaluated and whether signedURL was called.
ProcessSignRequest(env, t, obj, ident, platform, body, bucketName, duration) ==
    LET u == unmarshalSignRequest(body) IN
    IF u.err # "nil"
    THEN [resp |-> [Status |-> u.err, ErrorCode |-> u.code,
                    SignedURL |-> EmptyURL, StatusArgs |-> <<>>],
          req |-> u.req, steps |-> <<>>, validErr |-> "none",
          hashErr |-> "none", seedErr |-> "none", urlCalled |-> FALSE]
    ELSE
    LET v == validSignRequest(env, t, obj, ident, u.req) IN
    IF v.err # "nil"
    THEN [resp |-> [Status |-> v.err, ErrorCode |-> StatusSignError,
                    SignedURL |-> EmptyURL,
                    StatusArgs |-> signErrorArgs(v.err, env, t, u.req)],
          req |-> callerRequest(u.req), steps |-> v.steps, validErr |-> v.err,
          hashErr |-> v.hashErr, seedErr |-> v.seedErr, urlCalled |-> FALSE]
    ELSE
    LET s == signedURL(platform, bucketName, u.req.Path, duration, t) IN
    IF s.err # "nil"
    THEN [resp |-> [Status |-> s.err, ErrorCode |-> StatusSignError,
                    SignedURL |-> EmptyURL, StatusArgs |-> <<>>],
          req |-> callerRequest(u.req), steps |-> v.steps, validErr |-> v.err,
          hashErr |-> v.hashErr, seedErr |-> v.seedErr, urlCalled |-> TRUE]
    ELSE [resp |-> [Status |-> "Success", ErrorCode |-> StatusSuccess,
                    SignedURL |-> s.url, StatusArgs |-> <<>>],
          req |-> callerRequest(u.req), steps |-> v.steps, validErr |-> v.err,
          hashErr |-> v.hashErr, seedErr |-> v.seedErr, urlCalled |-> TRUE]

\* signResponse: the configuration, then ProcessSignRequest.
signResponse(env, t, obj, ident, platform, body) ==
    IF \/ env.BUCKET = ""
       \/ env.SIGNED_URL_DURATION = ""
       \/ ParseDuration(env.SIGNED_URL_DURATION).err
    THEN [resp |-> [Status |-> "Environment variable not set",
                    ErrorCode |-> StatusConfigError, SignedURL |-> EmptyURL, StatusArgs |-> <<>>],
          req |-> ZeroSignRequest, steps |-> <<>>, validErr |-> "none",
          hashErr |-> "none", seedErr |-> "none", urlCalled |-> FALSE]
    ELSE ProcessSignRequest(env, t, obj, ident, platform, body, env.BUCKET,
                            ParseDuration(env.SIGNED_URL_DURATION).ns)

\* SignRequestHandler.ServeHTTP: the response with its HTTP status.
SignServeHTTP(env, t, obj, ident, platform, body) ==
    LET r == signResponse(env, t, obj, ident, platform, body) IN
    [endpoint |-> "sign", env |-> env, t |-> t, obj |-> obj, ident |-> ident,
     body |-> body, platform |-> platform,
     http |-> IF r.resp.ErrorCode # StatusSuccess THEN 500 ELSE 200,
     resp |-> r.resp, req |-> r.req, steps |-> r.steps,
     validErr |-> r.validErr, hashErr |-> r.hashErr, seedErr |-> r.seedErr,
     urlCalled |-> r.urlCalled]

-----------------------------------------------------------------------------
(* /seed: issuance.                                                        *)

\* populateAllowlist
populateAllowlist(env, obj) ==
    IF env.BUCKET = "" THEN [err |-> "bucket_unset", keys |-> {}]
    ELSE LET ah == getAllowlist(obj) IN
         IF ah.err # "nil" THEN [err |-> "allowlist", keys |-> {}]
         ELSE ah

\* No lookup of the hash in the allowlist.
validateSeedRequest_AnyHash(u, sr, ah) ==
    IF Len(u) < 1 THEN "no_username" ELSE "nil"

\* The hash looked up before the username is tested.
validateSeedRequest_HashFirst(u, sr, ah) ==
    IF EncodeToString(sr.Hash.data) \in ah THEN "nil"
    ELSE IF Len(u) < 1 THEN "no_username"
    ELSE "not_in_allowlist"

\* validateSeedRequest(u, sr, ah): u is u.String().
validateSeedRequest(u, sr, ah) ==
    IF Len(u) < 1 THEN "no_username"
    ELSE IF EncodeToString(sr.Hash.data) \in ah THEN "nil"
    ELSE "not_in_allowlist"

\* The issue time a fixed one, not the clock's.
generateSeed_ZeroTime(hash, u, t) == Seed(0, u, <<>>, hash)

\* generateSeed: Issued is time.Now(), Username is u.String().
generateSeed(hash, u, t) == Seed(t, u, <<>>, hash)

\* unmarshalSeedRequest: json.Unmarshal into a models.SeedRequest keeps the
\* Hash member of the payload and drops every other member.
unmarshalSeedRequest(body) ==
    IF body.state # "ok"
    THEN [err |-> body.state, req |-> [Hash |-> NilBytes]]
    ELSE [err |-> "nil", req |-> [Hash |-> body.req.Hash]]

\* The hash left in the seed that is returned.
signSeedResponse_KeepsHash(ident, s) ==
    IF ident.certErr
    THEN [err |-> "public_certificates", Status |-> "", ErrorCode |-> StatusSuccess,
          Seed |-> ZeroSeed, Signature |-> ZeroSignature]
    ELSE
    LET withCerts == [s EXCEPT !.Certs = ident.certs]
        jsonSeed == MarshalSeed(withCerts)
    IN
    IF ident.signErr
    THEN [err |-> "sign_bytes", Status |-> "", ErrorCode |-> StatusSuccess,
          Seed |-> ZeroSeed, Signature |-> ZeroSignature]
    ELSE [err |-> "nil", Status |-> "success", ErrorCode |-> StatusSuccess,
          Seed |-> withCerts,
          Signature |-> SignBytes(ident.key, jsonSeed)]

\* The hash removed before the seed is marshalled and signed.
signSeedResponse_StripsFirst(ident, s) ==
    IF ident.certErr
    THEN [err |-> "public_certificates", Status |-> "", ErrorCode |-> StatusSuccess,
          Seed |-> ZeroSeed, Signature |-> ZeroSignature]
    ELSE
    LET withCerts == [s EXCEPT !.Certs = ident.certs, !.Hash = NilBytes]
        jsonSeed == MarshalSeed(withCerts)
    IN
    IF ident.signErr
    THEN [err |-> "sign_bytes", Status |-> "", ErrorCode |-> StatusSuccess,
          Seed |-> ZeroSeed, Signature |-> ZeroSignature]
    ELSE [err |-> "nil", Status |-> "success", ErrorCode |-> StatusSuccess,
          Seed |-> withCerts,
          Signature |-> SignBytes(ident.key, jsonSeed)]

\* signSeedResponse: attach the public certificates, sign the marshalled
\* seed, then nil out the hash.
signSeedResponse(ident, s) ==
    IF ident.certErr
    THEN [err |-> "public_certificates", Status |-> "", ErrorCode |-> StatusSuccess,
          Seed |-> ZeroSeed, Signature |-> ZeroSignature]
    ELSE
    LET withCerts == [s EXCEPT !.Certs = ident.certs]
        jsonSeed == MarshalSeed(withCerts)
    IN
    IF ident.signErr
    THEN [err |-> "sign_bytes", Status |-> "", ErrorCode |-> StatusSuccess,
          Seed |-> ZeroSeed, Signature |-> ZeroSignature]
    ELSE [err |-> "nil", Status |-> "success", ErrorCode |-> StatusSuccess,
          Seed |-> [withCerts EXCEPT !.Hash = NilBytes],
          Signature |-> SignBytes(ident.key, jsonSeed)]

\* The values the error messages of validateSeedRequest format into their
\* text: the user string, or the hex hash and the allowlist map (%#v).
validateErrorArgs(err, u, sr, ah) ==
    IF err = "no_username" THEN <<u>>
    ELSE <<EncodeToString(sr.Hash.data), ah>>

\* The error written with the status of a success.
SeedError_StatusOK(status, code) ==
    [http |-> 200, Status |-> status, ErrorCode |-> code,
     Seed |-> ZeroSeed, Signature |-> ZeroSignature, signed |-> FALSE,
     StatusArgs |-> <<>>]

\* An error reply of the /seed handler: http.Error with errSeedResp.
SeedError(status, code) ==
    [http |-> 500, Status |-> status, ErrorCode |-> code,
     Seed |-> ZeroSeed, Signature |-> ZeroSignature, signed |-> FALSE,
     StatusArgs |-> <<>>]

\* SeedRequestHandler.ServeHTTP.  user is "nil" when the context holds no
\* user, and the user's String() otherwise.
SeedServeHTTP(env, t, obj, ident, body, user) ==
    LET sr == unmarshalSeedRequest(body) IN
    IF sr.err # "nil" THEN SeedError(sr.err, StatusJSONError)
    ELSE IF user.isNil THEN SeedError("no user", StatusInvalidUser)
    ELSE
    LET hashCheck == env.VERIFY_SEED_HASH
        acceptedHashes == populateAllowlist(env, obj)
    IN
    IF acceptedHashes.err # "nil" /\ hashCheck = "true"
    THEN SeedError(acceptedHashes.err, StatusSeedError)
    ELSE
    LET verr == validateSeedRequest(user.name, sr.req, acceptedHashes.keys) IN
    IF verr # "nil" /\ (verr # "not_in_allowlist" \/ hashCheck = "true")
    THEN [SeedError(verr, StatusReqUnreadable) EXCEPT
            !.StatusArgs = validateErrorArgs(verr, user.name, sr.req,
                                             acceptedHashes.keys)]
    ELSE
    LET resp == signSeedResponse(ident, generateSeed(sr.req.Hash, user.name, t)) IN
    IF resp.err # "nil" THEN SeedError(resp.err, StatusSignError)
    ELSE [http |-> 200, Status |-> resp.Status, ErrorCode |-> resp.ErrorCode,
          Seed |-> resp.Seed, Signature |-> resp.Signature, signed |-> TRUE,
          StatusArgs |-> <<>>]

-----------------------------------------------------------------------------
(* The installer: username, seedRequest and what writeSeed stores.         *)

\* The current user's name as it is, root and the empty name included.
username_NoSudo(cur, sudoUser) ==
    IF cur.err THEN [name |-> <<>>, err |-> "errUser"]
    ELSE [name |-> cur.name, err |-> "nil"]

\* username: the name of the current user, SUDO_USER in its place when
\* that name is "root"; an empty name is an error.
username(cur, sudoUser) ==
    IF cur.err THEN [name |-> <<>>, err |-> "errUser"]
    ELSE LET name == IF cur.name = <<"r", "o", "o", "t">> THEN sudoUser
                     ELSE cur.name
         IN IF name = <<>> THEN [name |-> <<>>, err |-> "errEmptyUser"]
            ELSE [name |-> name, err |-> "nil"]

\* strings.Contains, over a text held as its words.
Contains(s, substr) ==
    \E i \in 0..(Len(s) - Len(substr)) :
        \A j \in 1..Len(substr) : s[i + j] = substr[j]

\* err.Error() of the error a /seed failure is formatted from.  The error
\* of validateSeedRequest for a hash that is not listed prints the hash and
\* the allowlist map with %#v, whose keys are quoted.
ErrorWords(r) ==
    IF r.Status = "not_in_allowlist"
    THEN <<"request", "hash", "hex", "not", "in", "allowlist", ":">>
         \o (IF r.StatusArgs[2] = {} THEN <<"map[string]bool{}">>
             ELSE <<"map[string]bool{", "\"", "hex", "\"", ":true", "}">>)
    ELSE <<r.Status>>

\* A payload that is not JSON.
NotJSON == [valid |-> FALSE]

\* fmt.Sprintf(`{"Status":"%s","ErrorCode":%d}`, err, code): the message is
\* put between the quotes as it is, so the text is a JSON object only when
\* the message brings no quote of its own.
errSeedResp(msg, code) ==
    [words |-> <<"Status">> \o msg \o <<"ErrorCode">>,
     json |-> IF Contains(msg, <<"\"">>) THEN NotJSON
              ELSE [valid |-> TRUE,
                    members |-> [Status |-> msg, ErrorCode |-> code]]]

\* json.Marshal and json.Unmarshal of a signature ([]byte): null for nil.
MarshalSignature(sig) == [null |-> sig = ZeroSignature, b64 |-> sig]

UnmarshalSignature(j) == IF j.null THEN ZeroSignature ELSE j.b64

\* json.Unmarshal into a []byte: null leaves nil, text is base64-decoded.
UnmarshalBytes(j) == IF j.null THEN NilBytes ELSE Bytes(j.b64)

\* json.Unmarshal into a models.Seed.
UnmarshalSeed(j) ==
    Seed(j.Issued[2], j.Username, j.Certs, UnmarshalBytes(j.Hash))

\* json.Marshal (and json.MarshalIndent, which differs in white space) of a
\* struct: its members in declaration order, each marshalled.
MarshalStruct(v) ==
    [k \in DOMAIN v |->
        CASE k = "Seed" -> MarshalSeed(v.Seed)
          [] k = "Signature" -> MarshalSignature(v.Signature)
          [] OTHER -> v[k]]

\* The zero models.SeedResponse.
ZeroSeedResponse ==
    [Status |-> <<>>, ErrorCode |-> StatusSuccess, Seed |-> ZeroSeed,
     Signature |-> ZeroSignature]

\* json.Unmarshal(respBody, &models.SeedResponse{}): a syntax error, or the
\* struct with every member the payload holds; a member the payload does
\* not hold keeps its zero value.
UnmarshalSeedResponse(body) ==
    IF ~body.json.valid THEN [err |-> "syntax", resp |-> ZeroSeedResponse]
    ELSE LET m == body.json.members IN
         [err |-> "nil",
          resp |->
            [Status |-> IF "Status" \in DOMAIN m THEN m.Status ELSE <<>>,
             ErrorCode |-> IF "ErrorCode" \in DOMAIN m THEN m.ErrorCode
                           ELSE StatusSuccess,
             Seed |-> IF "Seed" \in DOMAIN m THEN UnmarshalSeed(m.Seed)
                      ELSE ZeroSeed,
             Signature |-> IF "Signature" \in DOMAIN m
                           THEN UnmarshalSignature(m.Signature)
                           ELSE ZeroSignature]]

\* The payload of json.Marshal(resp) for a models.SeedResponse.
MarshalSeedResponse(resp) ==
    [words |-> <<"Status">> \o resp.Status \o <<"ErrorCode", "Seed", "Signature">>,
     json |-> [valid |-> TRUE, members |-> MarshalStruct(resp)]]

\* The body the /seed handler writes: the marshalled response on success,
\* the error template through http.Error otherwise.
ResponseBody(r) ==
    IF r.http = 200
    THEN MarshalSeedResponse([Status |-> <<r.Status>>, ErrorCode |-> r.ErrorCode,
                              Seed |-> r.Seed, Signature |-> r.Signature])
    ELSE errSeedResp(ErrorWords(r), r.ErrorCode)

\* seedRequest returning (nil, err).
seedRequestError(err) == [err |-> err, resp |-> ZeroSeedResponse]

\* The payload decoded before it is searched for the allowlist message.
seedRequest_DecodeFirst(hash, serverOk, doer) ==
    IF hash.data = <<>> THEN seedRequestError("errInput")
    ELSE IF ~serverOk THEN seedRequestError("errConnect")
    ELSE IF doer.err THEN seedRequestError("errPost")
    ELSE IF doer.readErr THEN seedRequestError("read")
    ELSE
    LET r == UnmarshalSeedResponse(doer.body) IN
    IF r.err # "nil" THEN seedRequestError("errFormat")
    ELSE IF r.resp.ErrorCode # StatusSuccess THEN seedRequestError("errSeed")
    ELSE IF Contains(doer.body.words, <<"not", "in", "allowlist">>)
    THEN seedRequestError("errResponse")
    ELSE [err |-> "nil", resp |-> r.resp]

\* seedRequest(client, hash, config).  serverOk: http.NewRequest accepts
\* config.SeedServer().  doer is the answer of client.Do: an error, or a
\* response whose body is read (readErr: ioutil.ReadAll fails).
seedRequest(hash, serverOk, doer) ==
    IF hash.data = <<>> THEN seedRequestError("errInput")
    ELSE IF ~serverOk THEN seedRequestError("errConnect")
    ELSE IF doer.err THEN seedRequestError("errPost")
    ELSE IF doer.readErr THEN seedRequestError("read")
    ELSE IF Contains(doer.body.words, <<"not", "in", "allowlist">>)
    THEN seedRequestError("errResponse")
    ELSE
    LET r == UnmarshalSeedResponse(doer.body) IN
    IF r.err # "nil" THEN seedRequestError("errFormat")
    ELSE IF r.resp.ErrorCode # StatusSuccess THEN seedRequestError("errSeed")
    ELSE [err |-> "nil", resp |-> r.resp]

\* The whole response kept for the file.
seedFileOf_WholeResponse(sr) == sr

\* models.SeedFile{Seed: sr.Seed, Signature: sr.Signature}
seedFileOf(sr) == [Seed |-> sr.Seed, Signature |-> sr.Signature]

\* The checks of writeSeed before seedRequest, in their order: the mount
\* point of the partition, fileHash, username, connect.
writeSeedChecks(mounted, hash, u, connectErr) ==
    IF ~mounted THEN "errInput"
    ELSE IF hash.err THEN "errFile"
    ELSE IF u.err # "nil" THEN "errUser"
    ELSE IF connectErr THEN "errConnect"
    ELSE "nil"

-----------------------------------------------------------------------------
(* The inputs the model draws.                                             *)

Times == 0..MaxTime

Usernames == {<<>>, <<"a", "b">>, <<"b", "o", "b">>}

\* Three content hashes: "ab" and "cd" are allowlisted, "01" is not.
H1 == Bytes(<<171>>)
H2 == Bytes(<<205>>)
H3 == Bytes(<<1>>)

\* The allowlist object: absent, listing "AB" and "cd", or holding nothing.
Allowlisted == [state |-> "ok", entries |-> << <<"A", "B">>, <<"c", "d">> >>]
Buckets ==
    {[state |-> "missing", entries |-> <<>>],
     Allowlisted,
     [state |-> "ok", entries |-> <<>>]}

\* appengine.PublicCertificates while the service signs with `key`: the
\* certificate of the signing key is always among them.
PublicCertificates(key) ==
    IF key = "k1"
    THEN <<Cert("notpem", "k0"), Cert("rsa", "k1")>>
    ELSE <<Cert("ec", "k0"), Cert("rsa", "k2")>>

Identity(key, certErr, signErr) ==
    [key |-> key, certs |-> PublicCertificates(key), certErr |-> certErr,
     signErr |-> signErr]

Env(seedHash, signHash, verifySeed, verifySig, fallback, validity, bucketName, urlDuration) ==
    [VERIFY_SEED_HASH |-> seedHash, VERIFY_SIGN_HASH |-> signHash,
     VERIFY_SEED |-> verifySeed, VERIFY_SEED_SIGNATURE |-> verifySig,
     VERIFY_SEED_SIGNATURE_FALLBACK |-> fallback,
     SEED_VALIDITY_DURATION |-> validity, BUCKET |-> bucketName,
     SIGNED_URL_DURATION |-> urlDuration]

Toggle == {"true", "false"}

\* The five enforcement toggles, and values of a toggle that are not "true":
\* unset, empty (os.Getenv gives "" for both), and look-alikes of "true".
ToggleNames ==
    {"VERIFY_SEED_HASH", "VERIFY_SIGN_HASH", "VERIFY_SEED",
     "VERIFY_SEED_SIGNATURE", "VERIFY_SEED_SIGNATURE_FALLBACK"}
OffValues == {"", "TRUE", "1"}

\* Every setting of the four /sign toggles, the rest configured.
ToggleEnvs ==
    {Env("true", a, b, c, d, "1h", "test", "1h") : a, b, c, d \in Toggle}

StrictEnv == Env("true", "true", "true", "true", "false", "1h", "test", "1h")
LaxEnv == Env("false", "false", "false", "false", "false", "1h", "test", "1h")

\* Everything enforced, one setting missing, malformed or negative.
ConfigEnvs ==
    {[StrictEnv EXCEPT !.SEED_VALIDITY_DURATION = v] : v \in {"", "bogus", "-2h"}}
    \cup {[StrictEnv EXCEPT !.SIGNED_URL_DURATION = v] : v \in {"", "bogus"}}
    \cup {[StrictEnv EXCEPT !.BUCKET = ""], [LaxEnv EXCEPT !.BUCKET = ""]}
    \cup {[StrictEnv EXCEPT !.VERIFY_SEED = "false", !.SEED_VALIDITY_DURATION = v]
          : v \in {"", "bogus"}}

\* Everything enforced but one toggle, which holds a value that is not
\* "true"; and every toggle holding the same such value.
OffEnvs ==
    {[StrictEnv EXCEPT ![n] = v] : n \in ToggleNames, v \in OffValues \cup {"false"}}
    \cup {Env(v, v, v, v, v, "1h", "test", "1h") : v \in OffValues \cup {"false"}}

NoSeedFile == [Seed |-> ZeroSeed, Signature |-> ZeroSignature, held |-> FALSE]

GoodMac == <<"1", "2", "3", "4", "5", "6", "7", "8", "9", "A", "B", "C">>
ShortMac == <<"1", "2", "3", "4", "5", "6", "A", "B", "C">>

\* A certificate and signatures made by a requester with a key of its own.
OwnCert == Cert("rsa", "own")

SignRequest(seed, sig, macs, path, hash) ==
    [Seed |-> seed, Signature |-> sig, Mac |-> macs, Path |-> path,
     Hash |-> hash]

\* The seeds and signatures a requester presents with hash h: the seed file
\* it holds, that file with its issue time moved on by d hours, a seed it
\* signed itself over h, and a seed with a signature that is no signature.
PresentedSeeds(file, h) ==
    (IF file.held
     THEN {[Seed |-> [file.Seed EXCEPT !.Issued = @ + d],
            Signature |-> file.Signature] : d \in {0, 1}}
     ELSE {})
    \cup {[Seed |-> Seed(t, <<"b", "o", "b">>, <<OwnCert>>, NilBytes),
           Signature |-> SignBytes("own",
               MarshalSeed(Seed(t, <<"b", "o", "b">>, <<OwnCert>>, h)))]
          : t \in Times}
    \cup {[Seed |-> Seed(0, u, <<>>, NilBytes), Signature |-> ZeroSignature]
          : u \in Usernames}

\* Hardware identifiers around the 12-character boundary: a stem of 11
\* hexadecimal characters, written plain or with colons between the pairs,
\* followed by up to MaxTail characters of TailChars.
MacStems ==
    {<<"1", "2", "3", "4", "5", "6", "7", "8", "9", "0", "a">>,
     <<"1", "2", ":", "3", "4", ":", "5", "6", ":", "7", "8", ":", "9", "0",
       ":", "a">>}
TailChars == {"c", "F", ":", ",", "g"}
MacTails == UNION {[1..n -> TailChars] : n \in 0..MaxTail}
SweptMacs == {stem \o tail : stem \in MacStems, tail \in MacTails}

OkBody(req) == [state |-> "ok", req |-> req]
BadBodies ==
    {[state |-> st, req |-> ZeroSignRequest]
     : st \in {"unreadable", "empty", "badjson"}}

\* The /sign requests the model handles.  Each is a configuration, a body,
\* and the answers of the platform (signing of the URL, certificate fetch).
SignCases(file) ==
    \* every toggle setting against every presented seed and hash
    UNION {{[env |-> e, body |-> OkBody(SignRequest(p.Seed, p.Signature, <<GoodMac>>, <<"f">>, h)),
             platform |-> "ok", certErr |-> FALSE]
            : e \in ToggleEnvs, p \in PresentedSeeds(file, h)}
           : h \in {H1, H2, H3}}
    \* a configuration with a setting missing or malformed
    \cup {[env |-> e, body |-> OkBody(SignRequest(p.Seed, p.Signature, <<GoodMac>>, <<"f">>, H1)),
           platform |-> "ok", certErr |-> FALSE]
          : e \in ConfigEnvs, p \in PresentedSeeds(file, H1)}
    \* the other fields of the request
    \cup {[env |-> e, body |-> OkBody(SignRequest(p.Seed, p.Signature, m, path, H1)),
           platform |-> "ok", certErr |-> FALSE]
          : e \in {StrictEnv, LaxEnv}, m \in {<<>>, <<GoodMac, ShortMac>>},
            path \in {<<>>, <<"f">>}, p \in PresentedSeeds(file, H1)}
    \* hardware identifiers of every shape, alone and after a good one, from
    \* a client that holds no seed file
    \cup (IF file.held THEN {}
          ELSE {[env |-> LaxEnv,
                 body |-> OkBody(SignRequest(ZeroSeed, ZeroSignature, pre \o <<m>>, <<"f">>, H1)),
                 platform |-> "ok", certErr |-> FALSE]
                : m \in SweptMacs, pre \in {<<>>, <<GoodMac>>}})
    \* an empty path under every toggle setting
    \cup {[env |-> e, body |-> OkBody(SignRequest(p.Seed, p.Signature, <<GoodMac>>, <<>>, H1)),
           platform |-> "ok", certErr |-> FALSE]
          : e \in ToggleEnvs, p \in PresentedSeeds(file, H1)}
    \* bodies that do not parse, and a platform that fails
    \cup {[env |-> e, body |-> b, platform |-> pf, certErr |-> c]
          : e \in {StrictEnv, LaxEnv},
            b \in BadBodies \cup {OkBody(SignRequest(file.Seed, file.Signature, <<GoodMac>>, <<"f">>, H1))},
            pf \in {"ok", "service_account", "signed_url"}, c \in BOOLEAN}

Users ==
    {[isNil |-> TRUE, name |-> <<>>]}
    \cup {[isNil |-> FALSE, name |-> u] : u \in Usernames}

Bob == [isNil |-> FALSE, name |-> <<"b", "o", "b">>]

SeedBody(h) == [state |-> "ok", req |-> [Hash |-> h]]

\* Payloads that name a user and an issue time of the requester's choosing
\* beside the hash.
ForgedBodies ==
    {[state |-> "ok",
      req |-> [Hash |-> h, Username |-> <<"e", "v", "e">>, Issued |-> MaxTime]]
     : h \in {H1, H3}}

SeedEnvs ==
    {StrictEnv, LaxEnv, [StrictEnv EXCEPT !.BUCKET = ""],
     [LaxEnv EXCEPT !.BUCKET = ""]}

\* The /seed requests the model handles.  Each is a configuration, a body,
\* the user of the context, and the answers of App Identity.
SeedCases ==
    \* every requested hash, one of them present and empty
    {[env |-> e, body |-> SeedBody(h), user |-> Bob, certErr |-> FALSE,
      signErr |-> FALSE]
     : e \in SeedEnvs, h \in {H1, H3, NilBytes, Bytes(<<>>)}}
    \* every user
    \cup {[env |-> e, body |-> SeedBody(H1), user |-> u, certErr |-> FALSE,
           signErr |-> FALSE]
          : e \in SeedEnvs, u \in Users}
    \* a user whose String() is empty, with other hashes
    \cup {[env |-> e, body |-> SeedBody(h), user |-> [isNil |-> FALSE, name |-> <<>>],
           certErr |-> FALSE, signErr |-> FALSE]
          : e \in {StrictEnv, LaxEnv}, h \in {H3, NilBytes}}
    \* a payload with members a SeedRequest does not have
    \cup {[env |-> e, body |-> b, user |-> Bob, certErr |-> FALSE,
           signErr |-> FALSE]
          : e \in {StrictEnv, LaxEnv}, b \in ForgedBodies}
    \* bodies that do not parse
    \cup {[env |-> e, body |-> [state |-> st, req |-> [Hash |-> NilBytes]],
           user |-> Bob, certErr |-> FALSE, signErr |-> FALSE]
          : e \in {StrictEnv, LaxEnv},
            st \in {"unreadable", "empty", "badjson"}}
    \* App Identity fails
    \cup {[env |-> e, body |-> SeedBody(H1), user |-> Bob, certErr |-> c,
           signErr |-> g]
          : e \in {StrictEnv, LaxEnv}, c \in BOOLEAN, g \in BOOLEAN}

-----------------------------------------------------------------------------
(* The state machine.                                                      *)

\* The goroutines that serve requests.
Handlers == 1..MaxHandlers

NoOutcome == [endpoint |-> "none"]

\* No object: what a handler that has opened none holds.
NoObject == [state |-> "none", entries |-> <<>>]

\* A handler that serves no request and has read nothing.
Idle == [pc |-> "idle", read |-> NoObject]

\* The installer before writeSeed is called; the partition holds no
\* seed.json.
NotInstalling == [pc |-> "idle", disk |-> [state |-> "absent"]]

\* Neither the write command nor the installer has been called.
NotWriting == [op |-> "none"]

Init ==
    /\ now = 0
    /\ bucket \in Buckets
    /\ signer = "k1"
    /\ seedFile = NoSeedFile
    /\ out = NoOutcome
    /\ inflight = [i \in Handlers |-> Idle]
    /\ install = NotInstalling
    /\ write = NotWriting

\* Time passes.
Tick ==
    /\ out = NoOutcome
    /\ now < MaxTime
    /\ now' = now + 1
    /\ UNCHANGED <<bucket, signer, seedFile, out, inflight, install, write>>

\* App Identity rotates its signing key; the old certificate is retired.
Rotate ==
    /\ out = NoOutcome
    /\ signer = "k1"
    /\ signer' = "k2"
    /\ UNCHANGED <<now, bucket, seedFile, out, inflight, install, write>>

\* An operator replaces the allowlist object.
UpdateAllowlist ==
    /\ out = NoOutcome
    /\ bucket' \in Buckets \ {bucket}
    /\ UNCHANGED <<now, signer, seedFile, out, inflight, install, write>>

\* POST /seed
SeedRequest ==
    /\ out = NoOutcome
    /\ \E c \in SeedCases :
         LET ident == Identity(signer, c.certErr, c.signErr)
             r == SeedServeHTTP(c.env, now, bucket, ident, c.body, c.user)
         IN out' = [endpoint |-> "seed", env |-> c.env, t |-> now,
                    obj |-> bucket, ident |-> ident, body |-> c.body,
                    user |-> c.user, resp |-> r]
    /\ UNCHANGED <<now, bucket, signer, seedFile, inflight, install, write>>

\* seedRequest of a client whose POST was answered with resp: client.Do
\* succeeds and the body the handler wrote is read in full.  The hash the
\* client sent is only tested for being empty.
clientSeedRequest(resp) ==
    seedRequest(H1, TRUE,
                [err |-> FALSE, readErr |-> FALSE, sent |-> ZeroSeedResponse,
                 body |-> ResponseBody(resp)])

\* The seed file a client holds after seedRequest returned sr.
heldSeedFile(sr) ==
    [Seed |-> sr.Seed, Signature |-> sr.Signature, held |-> TRUE]

\* The client keeps the seed and signature of a response that its
\* seedRequest accepts.
PersistSeed ==
    /\ out.endpoint = "seed"
    /\ clientSeedRequest(out.resp).err = "nil"
    /\ seedFile' = heldSeedFile(clientSeedRequest(out.resp).resp)
    /\ out' = NoOutcome
    /\ UNCHANGED <<now, bucket, signer, inflight, install, write>>

\* The caller has taken the response; the service is ready for the next.
Forget ==
    /\ out # NoOutcome
    /\ out' = NoOutcome
    /\ UNCHANGED <<now, bucket, signer, seedFile, inflight, install, write>>

\* POST /sign
SignRequestAction ==
    /\ out = NoOutcome
    /\ \E c \in SignCases(seedFile) :
         out' = SignServeHTTP(c.env, now, bucket,
                              Identity(signer, c.certErr, FALSE),
                              c.platform, c.body)
    /\ UNCHANGED <<now, bucket, signer, seedFile, inflight, install, write>>

\* POST /seed under a configuration of OffEnvs.
SeedToggled ==
    /\ out = NoOutcome
    /\ \E e \in OffEnvs, h \in {H1, H3} :
         LET ident == Identity(signer, FALSE, FALSE)
             r == SeedServeHTTP(e, now, bucket, ident, SeedBody(h), Bob)
         IN out' = [endpoint |-> "seed", env |-> e, t |-> now,
                    obj |-> bucket, ident |-> ident, body |-> SeedBody(h),
                    user |-> Bob, resp |-> r]
    /\ UNCHANGED <<now, bucket, signer, seedFile, inflight, install, write>>

\* POST /sign under a configuration of OffEnvs.
SignToggled ==
    /\ out = NoOutcome
    /\ \E e \in OffEnvs, p \in PresentedSeeds(seedFile, H1) :
         out' = SignServeHTTP(e, now, bucket, Identity(signer, FALSE, FALSE),
                              "ok",
                              OkBody(SignRequest(p.Seed, p.Signature, <<GoodMac>>, <<"f">>, H1)))
    /\ UNCHANGED <<now, bucket, signer, seedFile, inflight, install, write>>

Next ==
    \/ Tick
    \/ Rotate
    \/ UpdateAllowlist
    \/ SeedRequest
    \/ PersistSeed
    \/ Forget
    \/ SignRequestAction

Spec == Init /\ [][Next]_vars

\* The allowlist object in every condition: it cannot be opened, cannot be
\* read to the end, does not parse, or lists up to MaxEntries entries (an
\* empty payload lists none).  "AB" and "ab" differ in letter case only.
EntryChoices == {<<"A", "B">>, <<"a", "b">>, <<"c", "D">>}
Objects ==
    {[state |-> st, entries |-> <<>>] : st \in {"missing", "unreadable", "badyaml"}}
    \cup {[state |-> "ok", entries |-> es]
          : es \in UNION {[1..n -> EntryChoices] : n \in 0..MaxEntries}}

\* Configurations for a service whose surroundings fail: the hash toggles
\* and VERIFY_SEED either way, the fallback on so that a seed the requester
\* signed passes, and at most one setting missing, malformed or other than
\* one hour.
UpstreamEnvs ==
    LET base == {[StrictEnv EXCEPT !.VERIFY_SEED_SIGNATURE_FALLBACK = "true",
                                   !.VERIFY_SEED_HASH = a,
                                   !.VERIFY_SIGN_HASH = a,
                                   !.VERIFY_SEED = b] : a, b \in Toggle}
    IN base
       \cup {[e EXCEPT !.BUCKET = ""] : e \in base}
       \cup {[e EXCEPT !.SIGNED_URL_DURATION = v]
             : e \in base, v \in {"", "bogus", "5m", "1ns", "0s"}}
       \cup {[e EXCEPT !.SEED_VALIDITY_DURATION = v] : e \in base, v \in {"", "bogus"}}

\* The allowlist object is replaced, or access to it breaks or mends.
UpstreamChange ==
    /\ out = NoOutcome
    /\ bucket' \in Objects \ {bucket}
    /\ UNCHANGED <<now, signer, seedFile, out, inflight, install, write>>

\* POST /seed while the allowlist object or App Identity may fail.
SeedUpstream ==
    /\ out = NoOutcome
    /\ \E e \in UpstreamEnvs, h \in {H1, H3}, c \in BOOLEAN, g \in BOOLEAN :
         LET ident == Identity(signer, c, g)
             r == SeedServeHTTP(e, now, bucket, ident, SeedBody(h), Bob)
         IN out' = [endpoint |-> "seed", env |-> e, t |-> now,
                    obj |-> bucket, ident |-> ident, body |-> SeedBody(h),
                    user |-> Bob, resp |-> r]
    /\ UNCHANGED <<now, bucket, signer, seedFile, inflight, install, write>>

\* POST /sign, with a seed the requester signed at the current hour, while
\* the allowlist object, App Identity or the storage platform may fail.
SignUpstream ==
    /\ out = NoOutcome
    /\ \E e \in UpstreamEnvs, h \in {H1, H3}, c \in BOOLEAN,
          pf \in {"ok", "service_account", "signed_url"} :
         LET seed == Seed(now, <<"b", "o", "b">>, <<OwnCert>>, NilBytes)
             sig == SignBytes("own", MarshalSeed([seed EXCEPT !.Hash = h]))
         IN out' = SignServeHTTP(e, now, bucket, Identity(signer, c, FALSE), pf,
                                 OkBody(SignRequest(seed, sig, <<GoodMac>>, <<"f">>, h)))
    /\ UNCHANGED <<now, bucket, signer, seedFile, inflight, install, write>>

NextUpstream ==
    \/ Tick
    \/ UpstreamChange
    \/ SeedUpstream
    \/ SignUpstream
    \/ Forget

SpecUpstream == Init /\ [][NextUpstream]_vars

\* The service with its toggles set to values that are not "true".
NextToggled ==
    \/ Tick
    \/ Rotate
    \/ UpdateAllowlist
    \/ SeedToggled
    \/ PersistSeed
    \/ Forget
    \/ SignToggled

SpecToggled == Init /\ [][NextToggled]_vars

\* The requests handled at the same time: /seed with its hash toggle on,
\* /sign with its hash toggle on and off, and a /seed request that fails
\* before the allowlist is fetched.
ConcurrentCases ==
    {[endpoint |-> "seed", env |-> StrictEnv, body |-> SeedBody(H1),
      user |-> Bob],
     [endpoint |-> "seed", env |-> StrictEnv,
      body |-> [state |-> "badjson", req |-> [Hash |-> NilBytes]],
      user |-> Bob]}
    \cup {[endpoint |-> "sign", env |-> [LaxEnv EXCEPT !.VERIFY_SIGN_HASH = a],
           body |-> OkBody(SignRequest(ZeroSeed, ZeroSignature, <<GoodMac>>, <<"f">>, H1)),
           user |-> Bob]
          : a \in Toggle}

\* The handler gets as far as its call of getAllowlist: /seed after the body
\* and the user (populateAllowlist), /sign after the configuration, the
\* body and the Mac loop (validSignHash).  An unset BUCKET ends both before
\* the object is opened.
ReachesFetch(c) ==
    /\ c.body.state = "ok"
    /\ c.env.BUCKET # ""
    /\ IF c.endpoint = "seed" THEN ~c.user.isNil
       ELSE /\ c.env.SIGNED_URL_DURATION # ""
            /\ ~ParseDuration(c.env.SIGNED_URL_DURATION).err
            /\ macsError(c.body.req.Mac) = "nil"

\* What the client of /seed and the client of /sign get: the HTTP status
\* and the members of the response.
SeedReply(r) ==
    [http |-> r.http, ErrorCode |-> r.ErrorCode, Status |-> r.Status,
     Seed |-> r.Seed, Signature |-> r.Signature, SignedURL |-> EmptyURL]

SignReply(r) ==
    [http |-> r.http, ErrorCode |-> r.resp.ErrorCode,
     Status |-> r.resp.Status, Seed |-> ZeroSeed,
     Signature |-> ZeroSignature, SignedURL |-> r.resp.SignedURL]

\* The response of the endpoint of request c, handled at hour t while App
\* Identity signs with key, when the object it opens is obj.
HandlerResponse(c, t, obj, key) ==
    IF c.endpoint = "seed"
    THEN SeedReply(SeedServeHTTP(c.env, t, obj, Identity(key, FALSE, FALSE),
                                 c.body, c.user))
    ELSE SignReply(SignServeHTTP(c.env, t, obj, Identity(key, FALSE, FALSE),
                                 "ok", c.body))

\* Handler i takes a request and runs to its call of getAllowlist, which
\* opens and reads the object as it is now; a request that fails before
\* that call opens nothing.
Accept(i) ==
    /\ inflight[i].pc = "idle"
    /\ \E c \in ConcurrentCases :
         inflight' = [inflight EXCEPT ![i] =
            IF ReachesFetch(c)
            THEN [pc |-> "fetched", case |-> c,
                  read |-> bucketFileHandle(inflight[i].read, bucket),
                  opened |-> bucket]
            ELSE [pc |-> "local", case |-> c, read |-> inflight[i].read,
                  opened |-> NoObject]]
    /\ UNCHANGED <<now, bucket, signer, seedFile, out, install, write>>

\* Handler i decides with what it read and writes its response.
Respond(i) ==
    /\ inflight[i].pc \in {"fetched", "local"}
    /\ inflight' = [inflight EXCEPT ![i] =
          [pc |-> "done", case |-> inflight[i].case, read |-> inflight[i].read,
           opened |-> inflight[i].opened, t |-> now, key |-> signer,
           resp |-> HandlerResponse(inflight[i].case, now,
                       IF inflight[i].pc = "fetched" THEN inflight[i].read
                       ELSE bucket,
                       signer)]]
    /\ UNCHANGED <<now, bucket, signer, seedFile, out, install, write>>

\* Handler i returns.  What it read is dead: no later call is given it
\* (bucketFileHandle takes it and leaves it alone).
Release(i) ==
    /\ inflight[i].pc = "done"
    /\ inflight' = [inflight EXCEPT ![i] = [pc |-> "idle", read |-> inflight[i].read]]
    /\ UNCHANGED <<now, bucket, signer, seedFile, out, install, write>>

NextConcurrent ==
    \/ UpdateAllowlist
    \/ \E i \in Handlers : Accept(i)
    \/ \E i \in Handlers : Respond(i)
    \/ \E i \in Handlers : Release(i)

SpecConcurrent == Init /\ [][NextConcurrent]_vars

-----------------------------------------------------------------------------
(* The installer writes a seed: writeSeed, step by step.                   *)

\* seed.json on the partition: absent, written whole, or left unfinished
\* by a write that failed.
NoFile == [state |-> "absent"]

Written(content) == [state |-> "written", content |-> content]

Partial == [state |-> "partial"]

\* What fileHash returns for the image: an error, or the SHA-256 of an
\* image that is allowlisted (H1) or of one that is not (H3).
FileHashes ==
    {[err |-> TRUE, hash |-> NilBytes], [err |-> FALSE, hash |-> H1],
     [err |-> FALSE, hash |-> H3]}

\* What currentUser returns, and the values of SUDO_USER.
CurrentUsers ==
    {[err |-> TRUE, name |-> <<>>]}
    \cup {[err |-> FALSE, name |-> n]
          : n \in {<<>>, <<"r", "o", "o", "t">>, <<"b", "o", "b">>}}

SudoUsers == {<<>>, <<"b", "o", "b">>}

\* client.Do fails: there is no response.
NoReply ==
    [err |-> TRUE, readErr |-> FALSE, sent |-> ZeroSeedResponse,
     body |-> [words |-> <<>>, json |-> NotJSON]]

\* A response with the given body; sent is the models.SeedResponse the
\* body was marshalled from (the zero one for a body that holds none).
Reply(body, sent) ==
    [err |-> FALSE, readErr |-> FALSE, sent |-> sent, body |-> body]

\* The response of the /seed handler to the POST of hash by user u.
ServerReply(env, t, obj, key, hash, u) ==
    LET r == SeedServeHTTP(env, t, obj, Identity(key, FALSE, FALSE),
                           SeedBody(hash), [isNil |-> FALSE, name |-> u])
    IN Reply(ResponseBody(r),
             IF r.http = 200
             THEN [Status |-> <<r.Status>>, ErrorCode |-> r.ErrorCode,
                   Seed |-> r.Seed, Signature |-> r.Signature]
             ELSE ZeroSeedResponse)

\* The answers client.Do can give: no response, a response whose body
\* cannot be read, the response of the service under three configurations,
\* and the bodies of the fake client of the tests (plain text, malformed
\* JSON, a marshalled SeedResponse with and without an error code, and one
\* whose Status holds the allowlist message).
Doers(t, obj, key, hash, u) ==
    LET text == [words |-> <<"not", "in", "allowlist">>, json |-> NotJSON]
        bad == [ZeroSeedResponse EXCEPT !.ErrorCode = StatusSignError]
        odd == [ZeroSeedResponse EXCEPT
                  !.Status = <<"hash", "not", "in", "allowlist">>]
    IN {NoReply,
        [Reply(text, ZeroSeedResponse) EXCEPT !.readErr = TRUE],
        Reply(text, ZeroSeedResponse),
        Reply([words |-> <<"field", "what?">>, json |-> NotJSON], ZeroSeedResponse),
        Reply(MarshalSeedResponse(bad), bad),
        Reply(MarshalSeedResponse(ZeroSeedResponse), ZeroSeedResponse),
        Reply(MarshalSeedResponse(odd), odd)}
       \cup {ServerReply(e, t, obj, key, hash, u)
             : e \in {StrictEnv, LaxEnv, [StrictEnv EXCEPT !.BUCKET = ""]}}

\* writeSeed from its entry to the POST of seedRequest: the checks, the
\* hash, the user, the connection, and the request built.  It returns at
\* the first failure.
WriteSeedStart ==
    /\ install.pc = "idle"
    /\ \E mounted \in BOOLEAN, fh \in FileHashes, cur \in CurrentUsers,
          sudoUser \in SudoUsers, connectErr \in BOOLEAN, serverOk \in BOOLEAN :
         LET u == username(cur, sudoUser)
             e == writeSeedChecks(mounted, fh, u, connectErr)
             early == seedRequest(fh.hash, serverOk, NoReply)
             call == [pc |-> "done", disk |-> install.disk,
                      before |-> install.disk, requests |-> 0,
                      hash |-> fh.hash, cur |-> cur, sudoUser |-> sudoUser,
                      user |-> u, serverOk |-> serverOk, doer |-> NoReply,
                      sr |-> seedRequestError("none"), err |-> e]
         IN install' =
              IF e # "nil" THEN call
              ELSE IF early.err # "errPost"
              THEN [call EXCEPT !.sr = early, !.err = "errDownload"]
              ELSE [call EXCEPT !.pc = "posted", !.requests = 1, !.err = "nil"]
    /\ UNCHANGED <<now, bucket, signer, seedFile, out, inflight, write>>

\* client.Do(req) returns.
ClientDo ==
    /\ install.pc = "posted"
    /\ \E d \in Doers(now, bucket, signer, install.hash, install.user.name) :
         install' = [install EXCEPT !.pc = "replied", !.doer = d]
    /\ UNCHANGED <<now, bucket, signer, seedFile, out, inflight, write>>

\* The request posted again after a failure.
WriteSeedFinish_Retry ==
    /\ install.pc = "replied"
    /\ LET sr == seedRequest(install.hash, install.serverOk, install.doer)
           content == [Seed |-> MarshalSeed(sr.resp.Seed),
                       Signature |-> [null |-> FALSE, b64 |-> sr.resp.Signature]]
       IN IF sr.err # "nil"
          THEN install' = IF install.requests < 2
                          THEN [install EXCEPT !.pc = "posted", !.requests = @ + 1]
                          ELSE [install EXCEPT !.pc = "done", !.sr = sr,
                                               !.err = "errDownload"]
          ELSE install' = [install EXCEPT !.pc = "done", !.sr = sr,
                                          !.disk = [state |-> "written",
                                                    content |-> content]]
    /\ UNCHANGED <<now, bucket, signer, seedFile, out, inflight, write>>

\* writeSeed from the answer of client.Do to its return: seedRequest
\* classifies the answer; on success the SeedFile is marshalled, the
\* directory made and seed.json written.  A failure of os.MkdirAll leaves
\* the file alone; a failure of ioutil.WriteFile leaves it alone or
\* unfinished.
WriteSeedFinish ==
    /\ install.pc = "replied"
    /\ LET sr == seedRequest(install.hash, install.serverOk, install.doer)
           content == MarshalStruct(seedFileOf(sr.resp))
       IN IF sr.err # "nil"
          THEN install' = [install EXCEPT !.pc = "done", !.sr = sr,
                                          !.err = "errDownload"]
          ELSE \E w \in {[err |-> "nil", disk |-> Written(content)],
                         [err |-> "errPerm", disk |-> install.disk],
                         [err |-> "errIO", disk |-> install.disk],
                         [err |-> "errIO", disk |-> Partial]} :
                 install' = [install EXCEPT !.pc = "done", !.sr = sr,
                                            !.err = w.err, !.disk = w.disk]
    /\ UNCHANGED <<now, bucket, signer, seedFile, out, inflight, write>>

\* writeSeed has returned; seed.json stays as it was left.
WriteSeedReturn ==
    /\ install.pc = "done"
    /\ install' = [pc |-> "idle", disk |-> install.disk]
    /\ UNCHANGED <<now, bucket, signer, seedFile, out, inflight, write>>

NextInstaller ==
    \/ Tick
    \/ WriteSeedStart
    \/ ClientDo
    \/ WriteSeedFinish
    \/ WriteSeedReturn

SpecInstaller == Init /\ [][NextInstaller]_vars

\* Certificates of every kind: PEM that does not decode, a block that is no
\* X.509 certificate, a certificate with an elliptic-curve key, and RSA
\* certificates of two keys.
CertChoices ==
    {Cert("notpem", "k1"), Cert("badx509", "k1"), Cert("ec", "k1"),
     Cert("rsa", "k1"), Cert("rsa", "k2")}
CertLists == UNION {[1..n -> CertChoices] : n \in 0..MaxCerts}

\* POST /sign with the signature check on, for every list of certificates
\* App Identity may return (or none, when it fails) and the seed may embed;
\* the seed is signed by key k1 over its hash.
SignCerts ==
    /\ out = NoOutcome
    /\ \E cur \in CertLists, emb \in CertLists, f \in Toggle, c \in BOOLEAN :
         LET seed == Seed(now, <<"b", "o", "b">>, emb, NilBytes)
             sig == SignBytes("k1", MarshalSeed([seed EXCEPT !.Hash = H1]))
             env == [StrictEnv EXCEPT !.VERIFY_SIGN_HASH = "false",
                                      !.VERIFY_SEED_SIGNATURE_FALLBACK = f]
             ident == [key |-> signer, certs |-> cur, certErr |-> c,
                       signErr |-> FALSE]
         IN /\ c => cur = <<>>
            /\ out' = SignServeHTTP(env, now, bucket, ident, "ok",
                                 OkBody(SignRequest(seed, sig, <<GoodMac>>, <<"f">>, H1)))
    /\ UNCHANGED <<now, bucket, signer, seedFile, inflight, install, write>>

NextCerts ==
    \/ SignCerts
    \/ Forget

SpecCerts == Init /\ [][NextCerts]_vars

-----------------------------------------------------------------------------
(* The write command (cli/commands/write): Execute and run; the installer's *)
(* provisionISO and Finalize.                                              *)

\* The identifiers of the storage devices of the machine.
Devs == {"sda", "sdb"}

\* An error: nil, or a message that wraps one error (`wraps`, "" when it
\* wraps none, as with %v alone) and mentions in its text the errors of
\* `text`, which errors.Is does not find.
NilErr == [nil |-> TRUE, wraps |-> "", text |-> {}]
Errorf(wraps, text) == [nil |-> FALSE, wraps |-> wraps, text |-> text]

\* The errors the text of err names when it is formatted with %v.
Mentions(err) == IF err.nil THEN {} ELSE (err.text \cup {err.wraps}) \ {""}

\* A call made to the search, the console, the installer, a device or the
\* ISO handler; dev is the device it is made for or on, "" for none.
Call(name, dev) == [call |-> name, dev |-> dev]

\* d is an element of the list s.
InList(d, s) == \E i \in 1..Len(s) : s[i] = d

\* conf.Devices() when run builds its targets: the arguments, replaced
\* under --all by the identifiers of the available devices.
confDevices(c, args, available) == IF c.allDrives THEN available ELSE args

\* A requested device that is not available is left out of the targets.
targetsOf_SkipMissing(devices, available) ==
    [err |-> NilErr,
     targets |-> SelectSeq(devices, LAMBDA d : InList(d, available))]

\* The loop of run over conf.Devices(): a device that is not among the
\* available ones ends run with errDevice.
targetsOf(devices, available) ==
    IF \E i \in 1..Len(devices) : ~InList(devices[i], available)
    THEN [err |-> Errorf("errDevice", {}), targets |-> <<>>]
    ELSE [err |-> NilErr, targets |-> devices]

\* The loop goes on to the next device after a failure and returns the
\* first error at its end.
RECURSIVE provisionTargets_KeepGoing(_, _)
provisionTargets_KeepGoing(targets, plan) ==
    IF targets = <<>> THEN [err |-> NilErr, calls |-> <<>>]
    ELSE
    LET d == Head(targets)
        rest == provisionTargets_KeepGoing(Tail(targets), plan)
        failed == IF plan.step = "Prepare" /\ plan.dev = d
                  THEN Errorf("errPrepare", {})
                  ELSE IF plan.step = "Provision" /\ plan.dev = d
                  THEN Errorf("errProvision", {})
                  ELSE NilErr
    IN [err |-> IF failed.nil THEN rest.err ELSE failed,
        calls |-> <<Call("Prepare", d), Call("Provision", d)>> \o rest.calls]

\* The loop of run over the targets: Prepare, then Provision, returning at
\* the first error.  plan says which call of the installer fails.
RECURSIVE provisionTargets(_, _)
provisionTargets(targets, plan) ==
    IF targets = <<>> THEN [err |-> NilErr, calls |-> <<>>]
    ELSE
    LET d == Head(targets) IN
    IF plan.step = "Prepare" /\ plan.dev = d
    THEN [err |-> Errorf("errPrepare", {}), calls |-> <<Call("Prepare", d)>>]
    ELSE IF plan.step = "Provision" /\ plan.dev = d
    THEN [err |-> Errorf("errProvision", {}),
          calls |-> <<Call("Prepare", d), Call("Provision", d)>>]
    ELSE
    LET rest == provisionTargets(Tail(targets), plan) IN
    [err |-> rest.err,
     calls |-> <<Call("Prepare", d), Call("Provision", d)>> \o rest.calls]

\* The result r with the calls `pre` made before it.
After(pre, r) == [err |-> r.err, calls |-> pre \o r.calls]

\* run from i.Retrieve() to its return statement.
retrieveAndProvision(targets, plan) ==
    IF plan.step = "Retrieve"
    THEN [err |-> Errorf("errRetrieve", {}), calls |-> <<Call("Retrieve", "")>>]
    ELSE After(<<Call("Retrieve", "")>>, provisionTargets(targets, plan))

\* Finalize is skipped when run is returning an error.
deferFinalize_OnSuccessOnly(r, plan) ==
    IF ~r.err.nil THEN r
    ELSE [calls |-> r.calls \o <<Call("Finalize", "")>>,
          err |-> IF plan.finalize THEN Errorf("errFinalize", {}) ELSE NilErr]

\* The deferred function of run: Finalize is called with the error run is
\* returning in err; its failure replaces err by an error that wraps
\* errFinalize and quotes err.
deferFinalize(r, plan) ==
    [calls |-> r.calls \o <<Call("Finalize", "")>>,
     err |-> IF plan.finalize THEN Errorf("errFinalize", Mentions(r.err))
             ELSE r.err]

\* run from the search on.
searchAndProvision(c, args, env, plan) ==
    LET searched == <<Call("search", "")>>
        t == targetsOf(confDevices(c, args, env.available), env.available)
        prompted == IF c.warning
                    THEN searched \o <<Call("PromptUser", "")>>
                    ELSE searched
        created == prompted \o <<Call("newInstaller", "")>>
    IN
    IF env.searchErr THEN [err |-> Errorf("errSearch", {}), calls |-> searched]
    ELSE IF ~t.err.nil THEN [err |-> t.err, calls |-> searched]
    ELSE IF c.warning /\ env.promptErr
    THEN [err |-> Errorf("", {"PromptUser"}), calls |-> prompted]
    ELSE IF plan.step = "newInstaller"
    THEN [err |-> Errorf("errInstaller", {}), calls |-> created]
    ELSE After(created, deferFinalize(retrieveAndProvision(t.targets, plan), plan))

\* run(c, f).  env is what the machine answers: config.New, the elevation,
\* the search and the prompt.
run(c, args, env, plan) ==
    IF env.configErr THEN [err |-> Errorf("errConfig", {}), calls |-> <<>>]
    ELSE IF ~c.update /\ ~env.elevated
    THEN [err |-> Errorf("errElevation", {}), calls |-> <<>>]
    ELSE searchAndProvision(c, args, env, plan)

\* What Execute returns after execute(c, f) returned r.
executed(r) ==
    [exit |-> IF r.err.nil THEN "ExitSuccess" ELSE "ExitFailure",
     ran |-> TRUE, err |-> r.err, calls |-> r.calls]

\* What Execute returns without calling execute.
notExecuted(exit) == [exit |-> exit, ran |-> FALSE, err |-> NilErr, calls |-> <<>>]

\* --all together with --show_fixed is let through.
Execute_AllWithFixed(c, args, env, plan) ==
    IF ~env.logOk THEN notExecuted("ExitFailure")
    ELSE IF Len(args) = 0 /\ ~c.allDrives THEN notExecuted("ExitUsageError")
    ELSE executed(run(c, args, env, plan))

\* writeCmd.Execute: the log file, the two checks of the flags, execute.
Execute(c, args, env, plan) ==
    IF ~env.logOk THEN notExecuted("ExitFailure")
    ELSE IF Len(args) = 0 /\ ~c.allDrives THEN notExecuted("ExitUsageError")
    ELSE IF c.allDrives /\ c.listFixed THEN notExecuted("ExitFailure")
    ELSE executed(run(c, args, env, plan))

\* provisionISO between the mount of the ISO and its return statement.
\* f says which calls fail and whether a seed server is configured.
isoSteps(f) ==
    LET selected == <<Call("selectPart", "")>>
        mounted == selected \o <<Call("p.Mount", "")>>
        written == mounted \o <<Call("writeISO", "")>>
        seeded == written \o <<Call("writeSeed", "")>>
    IN
    IF f.selectPart THEN [err |-> Errorf("errPartition", {}), calls |-> selected]
    ELSE IF f.partMount THEN [err |-> Errorf("errMount", {}), calls |-> mounted]
    ELSE IF f.writeISO THEN [err |-> Errorf("errProvision", {}), calls |-> written]
    ELSE IF ~f.seedServer THEN [err |-> NilErr, calls |-> written]
    ELSE IF f.writeSeed THEN [err |-> Errorf("", {"writeSeed"}), calls |-> seeded]
    ELSE [err |-> NilErr, calls |-> seeded]

\* The handler is dismounted only when provisionISO returns no error.
deferDismount_OnSuccessOnly(r, f) ==
    IF ~r.err.nil THEN r
    ELSE [calls |-> r.calls \o <<Call("Dismount", "")>>,
          err |-> IF f.dismount THEN Errorf("Dismount", {}) ELSE NilErr]

\* The deferred function of provisionISO: handler.Dismount(); its error
\* err2 is returned, wrapped in a message that quotes err when there is one.
deferDismount(r, f) ==
    [calls |-> r.calls \o <<Call("Dismount", "")>>,
     err |-> IF f.dismount THEN Errorf("Dismount", Mentions(r.err))
             ELSE r.err]

\* Installer.provisionISO
provisionISO(f) ==
    IF f.mount
    THEN [err |-> Errorf("errMount", {}), calls |-> <<Call("mount", "")>>]
    ELSE After(<<Call("mount", "")>>, deferDismount(isoSteps(f), f))

\* The loop of Finalize over the devices.  f says on which devices the
\* detection of partitions, the dismount and the eject fail.
RECURSIVE finalizeDevices(_, _, _, _)
finalizeDevices(devices, dismount, powerOff, f) ==
    IF devices = <<>> THEN [err |-> NilErr, calls |-> <<>>]
    ELSE
    LET d == Head(devices)
        detected == <<Call("DetectPartitions", d)>>
        dismounted == IF dismount
                      THEN detected \o <<Call("Dismount", d)>>
                      ELSE <<>>
        ejected == IF powerOff
                   THEN dismounted \o <<Call("Eject", d)>>
                   ELSE dismounted
    IN
    IF dismount /\ d \in f.detect
    THEN [err |-> Errorf("errFinalize", {}), calls |-> detected]
    ELSE IF dismount /\ d \in f.dismount
    THEN [err |-> Errorf("errDevice", {}), calls |-> dismounted]
    ELSE IF powerOff /\ d \in f.eject
    THEN [err |-> Errorf("errIO", {}), calls |-> ejected]
    ELSE After(ejected, finalizeDevices(Tail(devices), dismount, powerOff, f))

\* Finalize after its loop returned r: the cache is removed only when the
\* loop ended without an error and os.RemoveAll succeeds.  cached: the
\* cache directory exists when Finalize is called.
removeCache(r, cached, f) ==
    IF ~r.err.nil THEN [err |-> r.err, calls |-> r.calls, cached |-> cached]
    ELSE IF f.removeAll
    THEN [err |-> Errorf("errPath", {}),
          calls |-> r.calls \o <<Call("RemoveAll", "")>>, cached |-> cached]
    ELSE [err |-> NilErr,
          calls |-> r.calls \o <<Call("RemoveAll", "")>>, cached |-> FALSE]

\* Installer.Finalize(devices, dismount), with config.PowerOff().
Finalize(devices, dismount, powerOff, cached, f) ==
    removeCache(finalizeDevices(devices, dismount, powerOff, f), cached, f)

\* The lists of up to MaxArgs device identifiers.
DevLists == UNION {[1..n -> Devs] : n \in 0..MaxArgs}

\* What the search reports: a list of devices without repetition.
Available ==
    {s \in UNION {[1..n -> Devs] : n \in 0..Cardinality(Devs)} :
        \A i, j \in 1..Len(s) : s[i] = s[j] => i = j}

\* The flags of the write command that Execute and run branch on.
WriteFlags ==
    [allDrives : BOOLEAN, listFixed : BOOLEAN, update : BOOLEAN,
     warning : BOOLEAN]

\* What the machine answers: the log file opens, config.New fails, the
\* user is elevated, the search fails, the prompt is declined.
WriteEnvs ==
    [logOk : BOOLEAN, configErr : BOOLEAN, elevated : BOOLEAN,
     searchErr : BOOLEAN, promptErr : BOOLEAN, available : Available]

\* The installer of the tests: the call that fails, if any, and whether
\* Finalize fails.
Plans ==
    [step : {"none", "newInstaller", "Retrieve"}, dev : {""},
     finalize : BOOLEAN]
    \cup [step : {"Prepare", "Provision"}, dev : Devs, finalize : BOOLEAN]

\* The calls of provisionISO that fail, and whether a seed server is
\* configured.
ISOFaults ==
    [mount : BOOLEAN, selectPart : BOOLEAN, partMount : BOOLEAN,
     writeISO : BOOLEAN, seedServer : BOOLEAN, writeSeed : BOOLEAN,
     dismount : BOOLEAN]

\* The devices on which the steps of Finalize fail, and whether
\* os.RemoveAll fails.
FinalizeFaults ==
    [detect : SUBSET Devs, dismount : SUBSET Devs, eject : SUBSET Devs,
     removeAll : BOOLEAN]

\* The record of a call of Execute and of what it returned.
executeRecord(c, args, env, plan, r) ==
    [op |-> "Execute", c |-> c, args |-> args, env |-> env, plan |-> plan,
     exit |-> r.exit, ran |-> r.ran, err |-> r.err, calls |-> r.calls]

\* The record of a call of provisionISO and of what it returned.
isoRecord(f, r) ==
    [op |-> "provisionISO", f |-> f, err |-> r.err, calls |-> r.calls]

\* The record of a call of Finalize and of what it returned.
finalizeRecord(devices, dismount, powerOff, cached, f, r) ==
    [op |-> "Finalize", devices |-> devices, dismount |-> dismount,
     powerOff |-> powerOff, before |-> cached, f |-> f, err |-> r.err,
     calls |-> r.calls, cached |-> r.cached]

\* The write command is run.
CallExecute ==
    /\ write = NotWriting
    /\ \E c \in WriteFlags, args \in DevLists, env \in WriteEnvs, plan \in Plans :
         write' = executeRecord(c, args, env, plan, Execute(c, args, env, plan))
    /\ UNCHANGED <<now, bucket, signer, seedFile, out, inflight, install>>

\* The installer provisions a device with an ISO.
CallProvisionISO ==
    /\ write = NotWriting
    /\ \E f \in ISOFaults : write' = isoRecord(f, provisionISO(f))
    /\ UNCHANGED <<now, bucket, signer, seedFile, out, inflight, install>>

\* The installer finalizes a list of devices.
CallFinalize ==
    /\ write = NotWriting
    /\ \E devices \in DevLists, dismount \in BOOLEAN, powerOff \in BOOLEAN,
          cached \in BOOLEAN, f \in FinalizeFaults :
         write' = finalizeRecord(devices, dismount, powerOff, cached, f,
                      Finalize(devices, dismount, powerOff, cached, f))
    /\ UNCHANGED <<now, bucket, signer, seedFile, out, inflight, install>>

\* The caller has taken the result.
CallReturn ==
    /\ write # NotWriting
    /\ write' = NotWriting
    /\ UNCHANGED <<now, bucket, signer, seedFile, out, inflight, install>>

InitWrite == Init /\ bucket = Allowlisted

NextWrite ==
    \/ CallExecute
    \/ CallProvisionISO
    \/ CallFinalize
    \/ CallReturn

SpecWrite == InitWrite /\ [][NextWrite]_vars

-----------------------------------------------------------------------------

(* Properties of /sign.                                                    *)

IsSign == out.endpoint = "sign"

\* validSignRequest was called on the request of the last /sign outcome.
Validated == IsSign /\ out.validErr # "none"

SignSucceeded == IsSign /\ out.resp.ErrorCode = StatusSuccess

\* The seed validSeed is given: the request's seed with the request's hash.
SeedWithHash(req) == [req.Seed EXCEPT !.Hash = req.Hash]

\* The hex encoding of the hash is an entry of the object, letter case aside.
InAllowlist(obj, hash) ==
    /\ obj.state = "ok"
    /\ \E i \in 1..Len(obj.entries) :
         ToLower(obj.entries[i]) = EncodeToString(hash.data)

\* C1: with VERIFY_SIGN_HASH = "true", a /sign response is a success carrying
\* a signed URL only if the hex encoding of the request's hash is in the
\* allowlist fetched for the request; when it is absent signedURL is not
\* called and the response is a failure.
C1_SignHashEnforced ==
    (Validated /\ out.env.VERIFY_SIGN_HASH = "true") =>
        /\ (SignSucceeded \/ ~out.resp.SignedURL.empty \/ out.urlCalled)
              => InAllowlist(out.obj, out.req.Hash)
        /\ ~InAllowlist(out.obj, out.req.Hash)
              => /\ ~out.urlCalled
                 /\ out.resp.ErrorCode # StatusSuccess
                 /\ out.http = 500

\* A request with well-formed identifiers and a hash the allowlist lacks is
\* refused for its hash.
C1_Witness ==
    /\ Validated
    /\ out.env.VERIFY_SIGN_HASH = "true"
    /\ out.req.Hash = H3
    /\ out.obj = Allowlisted
    /\ out.resp.Status = "hash_not_accepted"
    /\ ~out.urlCalled

\* Some currently published certificate verifies the signature.
VerifiedByCurrent ==
    \E i \in 1..Len(out.ident.certs) :
        CertVerifies(out.ident.certs[i], SeedWithHash(out.req), out.req.Signature)

\* Some certificate the request's seed carries verifies the signature.
VerifiedByEmbedded ==
    \E i \in 1..Len(out.req.Seed.Certs) :
        CertVerifies(out.req.Seed.Certs[i], SeedWithHash(out.req), out.req.Signature)

\* C2 as stated: with VERIFY_SEED_SIGNATURE = "true", every successful /sign
\* request had its signature verified by a currently trusted certificate,
\* whatever VERIFY_SEED, the fallback toggle and Seed.Certs are.
C2_Original ==
    (SignSucceeded /\ out.env.VERIFY_SEED_SIGNATURE = "true")
        => VerifiedByCurrent

\* C2 amended: with VERIFY_SEED and VERIFY_SEED_SIGNATURE both "true", every
\* successful /sign request had its signature verified by a currently
\* trusted certificate or, only when VERIFY_SEED_SIGNATURE_FALLBACK is
\* "true", by a certificate of the request's own Seed.Certs.
C2_SignatureVerified ==
    (/\ SignSucceeded
     /\ out.env.VERIFY_SEED = "true"
     /\ out.env.VERIFY_SEED_SIGNATURE = "true")
        => \/ VerifiedByCurrent
           \/ /\ out.env.VERIFY_SEED_SIGNATURE_FALLBACK = "true"
              /\ VerifiedByEmbedded

\* A held seed file is accepted with every check on and no fallback.
C2_Witness ==
    /\ SignSucceeded
    /\ out.env.VERIFY_SEED = "true"
    /\ out.env.VERIFY_SEED_SIGNATURE = "true"
    /\ out.env.VERIFY_SEED_SIGNATURE_FALLBACK = "false"
    /\ seedFile.held
    /\ out.req.Seed = seedFile.Seed
    /\ out.req.Signature = seedFile.Signature

\* validSeed was called on the request of the last /sign outcome.
SeedChecked == IsSign /\ out.seedErr # "none"

\* SEED_VALIDITY_DURATION is set and parses.
ValidityConfigured ==
    /\ out.env.SEED_VALIDITY_DURATION # ""
    /\ ~ParseDuration(out.env.SEED_VALIDITY_DURATION).err

\* The seed was issued more than the validity duration before the clock.
PastValidity ==
    /\ ValidityConfigured
    /\ out.req.Seed.Issued + ParseDuration(out.env.SEED_VALIDITY_DURATION).d
         < out.t

\* C3 as stated: every seed issued more than the validity duration ago fails
\* the seed check with the seed-expired error when VERIFY_SEED is "true",
\* and passes it otherwise.
C3_Original ==
    (SeedChecked /\ PastValidity) =>
        IF out.env.VERIFY_SEED = "true"
        THEN out.seedErr = "expired"
        ELSE out.seedErr = "nil"

\* C3 amended: with VERIFY_SEED = "true", every seed issued more than the
\* validity duration ago fails the seed check, and the request fails; the
\* error is the seed-expired one when the identity has at least 3 characters
\* and IssuedAt is not later than the clock (a shorter identity fails with
\* the identity error, a later IssuedAt with the seed-from-future error).
\* With VERIFY_SEED not "true" the seed passes the seed check.
C3_ExpiredSeed ==
    (SeedChecked /\ PastValidity) =>
        IF out.env.VERIFY_SEED = "true"
        THEN /\ out.seedErr # "nil"
             /\ out.resp.ErrorCode # StatusSuccess
             /\ ~out.urlCalled
             /\ (Len(out.req.Seed.Username) >= 3 /\ out.req.Seed.Issued <= out.t)
                   => out.seedErr = "expired"
        ELSE out.seedErr = "nil"

\* A seed file held since hour 0 is refused as expired at hour 2.
C3_Witness ==
    /\ SeedChecked
    /\ PastValidity
    /\ out.env.VERIFY_SEED = "true"
    /\ seedFile.held
    /\ out.req.Seed = seedFile.Seed
    /\ out.seedErr = "expired"
    /\ out.resp.ErrorCode = StatusSignError

\* C4 as stated: every /sign request whose seed was issued later than the
\* validator's clock fails validation with the seed-from-future error.
C4_Original ==
    (Validated /\ out.req.Seed.Issued > out.t) => out.validErr = "future"

\* C4 amended: with VERIFY_SEED = "true", a /sign request whose seed was
\* issued later than the validator's clock is never a success; its error is
\* the seed-from-future one whenever the identifier and hash checks let it
\* through, the identity has at least 3 characters and the validity duration
\* is set and parses.  With VERIFY_SEED not "true" the seed check passes it.
C4_FutureSeed ==
    (Validated /\ out.req.Seed.Issued > out.t) =>
        IF out.env.VERIFY_SEED = "true"
        THEN /\ out.resp.ErrorCode # StatusSuccess
             /\ ~out.urlCalled
             /\ (/\ out.seedErr # "none"
                 /\ Len(out.req.Seed.Username) >= 3
                 /\ ValidityConfigured)
                   => out.validErr = "future"
        ELSE out.seedErr \in {"none", "nil"}

\* A seed dated after the clock is refused as issued in the future.
C4_Witness ==
    /\ Validated
    /\ out.env.VERIFY_SEED = "true"
    /\ out.req.Seed.Issued > out.t
    /\ out.validErr = "future"
    /\ out.resp.ErrorCode = StatusSignError

\* The characters 0-9, a-f, A-F.
HexChars == Digits \cup LowerHex \cup UpperHex

\* Exactly 12 hexadecimal characters once the ':' separators are removed.
TwelveHex(mac) ==
    LET m == Replace(mac, ":") IN
    Len(m) = 12 /\ \A i \in 1..Len(m) : m[i] \in HexChars

MacErrors == {"mac_short", "mac_long", "mac_invalid"}

\* C5: validSignRequest fails with a malformed-identifier error when some
\* hardware identifier of the request is not exactly 12 characters of 0-9,
\* a-f, A-F after its ':' separators are removed, and the identifier check
\* passes when every identifier is 12 hexadecimal characters, with or
\* without separators.
C5_MacCheck ==
    Validated =>
        ((\E i \in 1..Len(out.req.Mac) : ~TwelveHex(out.req.Mac[i]))
            <=> out.validErr \in MacErrors)

\* An identifier of 11 hexadecimal characters and a comma passed the check.
C5_CommaAccepted ==
    /\ Validated
    /\ \E i \in 1..Len(out.req.Mac) :
         /\ Len(out.req.Mac[i]) = 12
         /\ out.req.Mac[i][12] = ","
    /\ out.validErr \notin MacErrors
    /\ SignSucceeded

\* C6: with VERIFY_SIGN_HASH = "true", a /sign request succeeds only if the
\* submitted hash is in the allowlist and is the hash the presented seed was
\* signed with; a seed issued for one hash and presented with another
\* allowlisted hash is rejected.
C6_HashCryptographicallyVerified ==
    (SignSucceeded /\ out.env.VERIFY_SIGN_HASH = "true") =>
        /\ InAllowlist(out.obj, out.req.Hash)
        /\ out.req.Signature.msg.Hash = MarshalBytes(out.req.Hash)

\* The seed file issued for hash "ab" is presented with hash "cd", which the
\* allowlist holds, and the request succeeds.
C6_OtherHashAccepted ==
    /\ SignSucceeded
    /\ out.env.VERIFY_SIGN_HASH = "true"
    /\ seedFile.held
    /\ out.req.Seed = seedFile.Seed
    /\ out.req.Signature = seedFile.Signature
    /\ seedFile.Signature.msg.Hash = MarshalBytes(H1)
    /\ out.req.Hash = H2
    /\ InAllowlist(out.obj, H2)

\* The checks of validSignRequest, in the order of the code.
Order == <<"mac", "hash", "identity", "temporal", "signature", "path">>

\* The check an error of validSignRequest belongs to.
ErrCheck(err) ==
    CASE err \in MacErrors -> "mac"
      [] err \in {"bucket_unset", "allowlist", "hash_not_accepted"} -> "hash"
      [] err = "username" -> "identity"
      [] err \in {"duration_unset", "duration_parse", "future", "expired"}
           -> "temporal"
      [] err \in {"public_certificates", "signature"} -> "signature"
      [] err = "path" -> "path"
      [] OTHER -> "none"

\* The toggles make the check count.
Enforced(c) ==
    CASE c = "hash" -> out.env.VERIFY_SIGN_HASH = "true"
      [] c \in {"identity", "temporal"} -> out.env.VERIFY_SEED = "true"
      [] c = "signature" -> /\ out.env.VERIFY_SEED = "true"
                            /\ out.env.VERIFY_SEED_SIGNATURE = "true"
      [] OTHER -> TRUE

\* The check is evaluated when control reaches it: the hash is looked up
\* whatever its toggle, the seed checks only when their toggles are on.
Evaluated(c) == c = "hash" \/ Enforced(c)

\* The check, taken alone, does not pass the request of the last outcome.
Fails(c) ==
    CASE c = "mac" ->
           \E i \in 1..Len(out.req.Mac) : macError(out.req.Mac[i]) # "nil"
      [] c = "hash" -> ~(/\ out.env.BUCKET # ""
                         /\ InAllowlist(out.obj, out.req.Hash))
      [] c = "identity" -> Len(out.req.Seed.Username) < 3
      [] c = "temporal" ->
           \/ ~ValidityConfigured
           \/ out.req.Seed.Issued > out.t
           \/ PastValidity
      [] c = "signature" ->
           \/ out.ident.certErr
           \/ ~(\/ VerifiedByCurrent
                \/ /\ out.env.VERIFY_SEED_SIGNATURE_FALLBACK = "true"
                   /\ VerifiedByEmbedded)
      [] c = "path" -> Len(out.req.Path) = 0

\* The positions in Order of the enforced checks that fail.
Failing == {i \in 1..Len(Order) : Enforced(Order[i]) /\ Fails(Order[i])}

\* The least position of a non-empty set of positions.
Least(S) == CHOOSE i \in S : \A j \in S : i <= j

\* C9: validSignRequest evaluates its checks in the order hardware
\* identifiers, hash allowlist, seed identity, seed temporal validity, seed
\* signature, resource path; the error it returns is that of the first
\* enforced check in this order that fails, and no check after that one is
\* evaluated.
C9_CheckOrder ==
    Validated =>
        LET failing == Failing
            last == IF failing = {} THEN Len(Order) ELSE Least(failing)
        IN
        /\ IF failing = {} THEN out.validErr = "nil"
           ELSE ErrCheck(out.validErr) = Order[last]
        /\ out.steps = SelectSeq(SubSeq(Order, 1, last), Evaluated)

\* A request that fails three checks (a seed issued in the future, a
\* signature that is none, an empty path) is refused for the first of them
\* and the other two are not evaluated.
C9_Witness ==
    /\ Validated
    /\ {3, 4, 5, 6} \cap Failing = {4, 5, 6}
    /\ out.validErr = "future"
    /\ out.steps = <<"mac", "hash", "identity", "temporal">>

\* The request has an empty path and passes every other enforced check.
OtherwiseValid == Failing = {6}

\* C10: a /sign request with an empty Path is never answered with success
\* and no signed URL is made for it; when every other enforced check passes,
\* validSignRequest fails with the empty-path error, under every setting of
\* the toggles.
C10_EmptyPath ==
    (IsSign /\ out.body.state = "ok" /\ Len(out.body.req.Path) = 0) =>
        /\ ~SignSucceeded
        /\ out.http = 500
        /\ ~out.urlCalled
        /\ out.resp.SignedURL.empty
        /\ (Validated /\ OtherwiseValid) => out.validErr = "path"

\* The held seed file, valid under every check, is presented with an empty
\* path and refused for the path.
C10_Witness ==
    /\ Validated
    /\ out.env = StrictEnv
    /\ seedFile.held
    /\ out.req.Seed = seedFile.Seed
    /\ out.req.Signature = seedFile.Signature
    /\ Len(out.req.Path) = 0
    /\ OtherwiseValid
    /\ out.validErr = "path"
    /\ out.resp.ErrorCode = StatusSignError
    /\ ~out.urlCalled

\* C12: with VERIFY_SEED not "true", validSeed returns nil for every seed
\* and signature, with no check of identity length, times or signature,
\* whatever VERIFY_SEED_SIGNATURE is and whether or not
\* SEED_VALIDITY_DURATION is set; the next check is the path.
C12_SeedNotEnforced ==
    (SeedChecked /\ out.env.VERIFY_SEED # "true") =>
        /\ out.seedErr = "nil"
        /\ out.steps = <<"mac", "hash", "path">>
        /\ out.validErr = IF Len(out.req.Path) = 0 THEN "path" ELSE "nil"

\* A seed with an empty username and no signature passes with VERIFY_SEED
\* off, VERIFY_SEED_SIGNATURE on and no validity duration set.
C12_Witness ==
    /\ SignSucceeded
    /\ out.env.VERIFY_SEED = "false"
    /\ out.env.VERIFY_SEED_SIGNATURE = "true"
    /\ out.env.SEED_VALIDITY_DURATION = ""
    /\ out.req.Seed.Username = <<>>
    /\ out.req.Signature = ZeroSignature
    /\ out.seedErr = "nil"

-----------------------------------------------------------------------------
(* Properties of /seed.                                                    *)

IsSeed == out.endpoint = "seed"

\* The /seed response is a success carrying a seed and its signature.
SeedIssued == IsSeed /\ out.resp.signed

\* C7: the seed a /seed response returns has no hash: the hash the seed was
\* generated with is nil in the response and serialises as null.
C7_HashStripped ==
    IsSeed =>
        /\ out.resp.Seed.Hash = NilBytes
        /\ MarshalSeed(out.resp.Seed).Hash.null

\* A seed is issued for the allowlisted hash "ab" and returned without it.
C7_Witness ==
    /\ SeedIssued
    /\ out.env.VERIFY_SEED_HASH = "true"
    /\ out.body.req.Hash = H1
    /\ InAllowlist(out.obj, H1)
    /\ Len(out.user.name) > 0
    /\ out.resp.ErrorCode = StatusSuccess
    /\ out.resp.Seed.Hash = NilBytes

\* Some certificate of the returned seed verifies the signature over `seed`.
VerifiedByReturned(seed) ==
    \E i \in 1..Len(out.resp.Seed.Certs) :
        CertVerifies(out.resp.Seed.Certs[i], seed, out.resp.Signature)

\* C8 as stated: the returned signature is over the serialisation of the
\* seed returned with it, and a certificate of that seed verifies it.
C8_Original ==
    SeedIssued =>
        /\ out.resp.Signature.msg = MarshalSeed(out.resp.Seed)
        /\ VerifiedByReturned(out.resp.Seed)

\* The seed as it was signed: the returned seed with the requested hash.
SignedSeed == [out.resp.Seed EXCEPT !.Hash = out.body.req.Hash]

\* C8 amended: the returned signature is over the serialisation of the
\* returned seed with its hash set back to the hash of the request, and a
\* certificate of the returned seed verifies it over that serialisation; it
\* is a signature over the returned seed itself exactly when the request
\* carried no hash.
C8_SignatureOverSeedWithHash ==
    SeedIssued =>
        /\ out.resp.Signature.msg = MarshalSeed(SignedSeed)
        /\ VerifiedByReturned(SignedSeed)
        /\ (out.resp.Signature.msg = MarshalSeed(out.resp.Seed))
              <=> out.body.req.Hash.nil

\* A seed issued for hash "ab": the signature covers the hash, the returned
\* seed does not hold it.
C8_Witness ==
    /\ SeedIssued
    /\ out.body.req.Hash = H1
    /\ out.resp.Signature.msg.Hash = MarshalBytes(H1)
    /\ out.resp.Seed.Hash = NilBytes
    /\ VerifiedByReturned(SignedSeed)

\* The /seed handler got as far as the user of the context, who is not nil.
SeedUserKnown == IsSeed /\ out.body.state = "ok" /\ ~out.user.isNil

\* populateAllowlist for the last /seed request.
SeedAllowlist == populateAllowlist(out.env, out.obj)

\* C13: no seed is signed for an empty user string: validateSeedRequest
\* gives the no-username error whatever the hash, and the /seed response is
\* an error response, also when VERIFY_SEED_HASH is not "true".
C13_NoSeedWithoutUser ==
    (SeedUserKnown /\ Len(out.user.name) = 0) =>
        /\ validateSeedRequest(out.user.name, out.body.req, SeedAllowlist.keys)
             = "no_username"
        /\ ~out.resp.signed
        /\ out.resp.http = 500
        /\ out.resp.Seed = ZeroSeed
        /\ out.resp.Signature = ZeroSignature
        /\ IF SeedAllowlist.err # "nil" /\ out.env.VERIFY_SEED_HASH = "true"
           THEN out.resp.ErrorCode = StatusSeedError
           ELSE /\ out.resp.ErrorCode = StatusReqUnreadable
                /\ out.resp.Status = "no_username"

\* With VERIFY_SEED_HASH off, a request for an allowlisted hash from a user
\* with an empty name is refused for the name.
C13_Witness ==
    /\ SeedUserKnown
    /\ Len(out.user.name) = 0
    /\ out.env.VERIFY_SEED_HASH = "false"
    /\ InAllowlist(out.obj, out.body.req.Hash)
    /\ out.resp.Status = "no_username"
    /\ out.resp.ErrorCode = StatusReqUnreadable

\* The allowlist was fetched for the last /seed request and holds the hex
\* encoding of the requested hash.
SeedHashAllowed ==
    out.env.BUCKET # "" /\ InAllowlist(out.obj, out.body.req.Hash)

\* C14: with VERIFY_SEED_HASH = "true" no seed is signed for a request whose
\* hex-encoded hash is absent from the allowlist; with the toggle not "true"
\* a request from a user with a non-empty name goes on to be signed whether
\* or not its hash is in the allowlist (signed unless App Identity fails).
C14_SeedHashEnforced ==
    SeedUserKnown =>
        IF out.env.VERIFY_SEED_HASH = "true"
        THEN ~SeedHashAllowed =>
                /\ ~out.resp.signed
                /\ out.resp.http = 500
                /\ out.resp.ErrorCode \in {StatusSeedError, StatusReqUnreadable}
                /\ out.resp.Signature = ZeroSignature
        ELSE Len(out.user.name) > 0 =>
                /\ out.resp.signed <=> ~(out.ident.certErr \/ out.ident.signErr)
                /\ ~out.resp.signed => out.resp.ErrorCode = StatusSignError

\* With VERIFY_SEED_HASH off, a seed is signed for a hash the allowlist
\* lacks.
C14_Witness ==
    /\ SeedIssued
    /\ out.env.VERIFY_SEED_HASH = "false"
    /\ out.obj = Allowlisted
    /\ out.body.req.Hash = H3
    /\ ~SeedHashAllowed
    /\ out.resp.Signature.msg.Hash = MarshalBytes(H3)

-----------------------------------------------------------------------------
(* Properties of both endpoints.                                           *)

\* The last request handled again with toggle n unset, all else the same.
SignWithUnset(n) ==
    SignServeHTTP([out.env EXCEPT ![n] = ""], out.t, out.obj, out.ident,
                  out.platform, out.body)
SeedWithUnset(n) ==
    SeedServeHTTP([out.env EXCEPT ![n] = ""], out.t, out.obj, out.ident,
                  out.body, out.user)

\* C11: for each of the five toggles, a value other than exactly "true"
\* gives the same outcome of the request as the toggle being unset: the same
\* response, HTTP status and checks evaluated.
C11_OnlyTrueEnforces ==
    \A n \in ToggleNames :
        out.endpoint # "none" /\ out.env[n] # "true" =>
            IF IsSign
            THEN [SignWithUnset(n) EXCEPT !.env = out.env] = out
            ELSE SeedWithUnset(n) = out.resp

\* With VERIFY_SIGN_HASH = "TRUE" and every other check enforced, a hash
\* that the allowlist lacks is looked up, logged and let through.
C11_Witness ==
    /\ SignSucceeded
    /\ out.env = [StrictEnv EXCEPT !.VERIFY_SIGN_HASH = "TRUE"]
    /\ out.hashErr # "nil"
    /\ ~InAllowlist(out.obj, out.req.Hash)

\* The response of the last request is a failure.
Failed ==
    IF IsSign
    THEN out.http = 500 /\ out.resp.ErrorCode # StatusSuccess
    ELSE out.resp.http = 500 /\ out.resp.ErrorCode # StatusSuccess

\* /sign read BUCKET or SIGNED_URL_DURATION and found it missing or
\* malformed.
SignConfigError ==
    /\ IsSign
    /\ \/ out.env.BUCKET = ""
       \/ out.env.SIGNED_URL_DURATION = ""
       \/ ParseDuration(out.env.SIGNED_URL_DURATION).err

\* validSeed read SEED_VALIDITY_DURATION and found it missing or malformed.
SignValidityError ==
    IsSign /\ out.seedErr \in {"duration_unset", "duration_parse"}

\* validSignHash could not fetch, read or parse the allowlist.
SignAllowlistError == IsSign /\ out.hashErr \in {"bucket_unset", "allowlist"}

\* App Identity or the storage platform failed while /sign used it.
SignSignerError ==
    /\ IsSign
    /\ \/ out.seedErr = "public_certificates"
       \/ out.urlCalled /\ out.platform # "ok"

\* populateAllowlist failed: BUCKET is not set, or the allowlist could not be
\* fetched, read or parsed.
SeedAllowlistError == SeedUserKnown /\ SeedAllowlist.err # "nil"

\* App Identity failed while /seed signed the seed.
SeedSignerError ==
    /\ SeedUserKnown
    /\ Len(out.user.name) > 0
    /\ out.env.VERIFY_SEED_HASH = "true" => SeedHashAllowed
    /\ out.ident.certErr \/ out.ident.signErr

\* C15 as stated: whenever a configuration or upstream error occurs while a
\* request is handled, on either endpoint, the response is a failure under
\* every toggle setting.
C15_Original ==
    (\/ SignConfigError \/ SignValidityError \/ SignAllowlistError
     \/ SignSignerError \/ SeedAllowlistError \/ SeedSignerError)
        => Failed

\* C15 amended: a missing or malformed BUCKET or SIGNED_URL_DURATION on
\* /sign, a missing or malformed SEED_VALIDITY_DURATION read by validSeed,
\* and a failure of App Identity or of the storage platform always make the
\* response a failure.  A failure to fetch, read or parse the allowlist (on
\* /seed also an unset BUCKET) makes the response a failure only when the
\* hash toggle of the endpoint is "true"; otherwise it is logged and the
\* request goes on as if the hash had not been found.
C15_UpstreamErrors ==
    /\ (\/ SignConfigError \/ SignValidityError \/ SignSignerError
        \/ SeedSignerError) => Failed
    /\ SignAllowlistError =>
          IF out.env.VERIFY_SIGN_HASH = "true"
          THEN Failed /\ out.validErr = out.hashErr
          ELSE /\ out.validErr # out.hashErr
               /\ Len(out.steps) > 2
    /\ SeedAllowlistError =>
          IF out.env.VERIFY_SEED_HASH = "true"
          THEN Failed /\ out.resp.ErrorCode = StatusSeedError
          ELSE out.resp.signed <=> ~(out.ident.certErr \/ out.ident.signErr)

\* With VERIFY_SIGN_HASH off, a request is answered with success while the
\* allowlist object does not parse.
C15_Witness ==
    /\ SignAllowlistError
    /\ out.obj.state = "badyaml"
    /\ out.env.VERIFY_SIGN_HASH = "false"
    /\ out.env.VERIFY_SEED = "true"
    /\ SignSucceeded

\* Object B stands to the hash of the last request as the object the request
\* was handled with: both parse, and both hold the hash or both lack it.
SameMembership(B) ==
    /\ out.obj.state = "ok"
    /\ B.state = "ok"
    /\ InAllowlist(B, out.body.req.Hash) <=> InAllowlist(out.obj, out.body.req.Hash)

\* The response to the last request had the allowlist object been B.
ResponseWith(B) ==
    IF IsSign
    THEN SignServeHTTP(out.env, out.t, B, out.ident, out.platform, out.body).resp
    ELSE SeedServeHTTP(out.env, out.t, B, out.ident, out.body, out.user)

\* C16: the response of /seed and of /sign does not depend on the allowlist
\* beyond the accept/reject decision: handled with another allowlist that
\* differs only in entries other than the requested hash, the request gets
\* the same response, Status text included.
C16_AllowlistNotEchoed ==
    \A B \in Objects :
        (out.endpoint # "none" /\ SameMembership(B)) => ResponseWith(B) = out.resp

\* The Status of a refused /seed request holds the whole allowlist.
C16_AllowlistEchoed ==
    /\ IsSeed
    /\ out.env.VERIFY_SEED_HASH = "true"
    /\ out.body.req.Hash = H3
    /\ out.resp.Status = "not_in_allowlist"
    /\ out.resp.ErrorCode = StatusReqUnreadable
    /\ Len(out.resp.StatusArgs) = 2
    /\ out.resp.StatusArgs[2] = getAllowlist(out.obj).keys
    /\ Cardinality(out.resp.StatusArgs[2]) = 2

\* The parsed value of SIGNED_URL_DURATION for the last request.
UrlDuration == ParseDuration(out.env.SIGNED_URL_DURATION).ns

\* C17: a signed URL expires at the time it was made plus
\* SIGNED_URL_DURATION, the parsed value of the setting, and the 64-bit
\* nanosecond count is computed without overflow.
C17_ExpiresAfterDuration ==
    SignSucceeded =>
        /\ out.resp.SignedURL.Expires = TimeAdd(out.t, UrlDuration)
        /\ ~MulOverflows(Minute, UrlDuration)

\* With SIGNED_URL_DURATION = "5m" the product time.Minute * duration
\* overflows to a negative count: the URL expired before it was made.
C17_ExpiryOverflows ==
    /\ SignSucceeded
    /\ out.env.SIGNED_URL_DURATION = "5m"
    /\ MulOverflows(Minute, UrlDuration)
    /\ Negative64(out.resp.SignedURL.Expires.add)
    /\ out.resp.SignedURL.Expires.add # UrlDuration

\* The declared values of models.StatusCode.
StatusCodes ==
    {StatusSuccess, StatusConfigError, StatusReqUnreadable, StatusJSONError,
     StatusSignError, StatusSeedError, StatusSeedInvalidHash, StatusInvalidUser}

\* The HTTP status and the ErrorCode of the last response.
HttpStatus == IF IsSign THEN out.http ELSE out.resp.http
ErrorCode == out.resp.ErrorCode

\* C18: every response of /sign and /seed carries an ErrorCode of the
\* declared set, and its HTTP status is 200 exactly when the ErrorCode is 0
\* and 500 otherwise.
C18_ErrorCodeAndHttpStatus ==
    out.endpoint # "none" =>
        /\ ErrorCode \in StatusCodes
        /\ HttpStatus = IF ErrorCode = StatusSuccess THEN 200 ELSE 500

\* A /seed request with no user in its context: code 107, HTTP 500.
C18_Witness ==
    /\ IsSeed
    /\ out.user.isNil
    /\ ErrorCode = StatusInvalidUser
    /\ HttpStatus = 500

\* C19: on both endpoints, once the handler reads the body, a body that
\* cannot be read is answered with StatusReqUnreadable and a body that is
\* empty or not valid JSON with StatusJSONError.
C19_BodyErrorsDistinguished ==
    (out.endpoint # "none" /\ ~SignConfigError) =>
        /\ out.body.state = "unreadable" => ErrorCode = StatusReqUnreadable
        /\ out.body.state \in {"empty", "badjson"} => ErrorCode = StatusJSONError

\* /seed answers a body it cannot read with the JSON-error code.
C19_SeedUnreadableAsJSON ==
    /\ IsSeed
    /\ out.body.state = "unreadable"
    /\ ErrorCode = StatusJSONError
    /\ HttpStatus = 500

\* Objects A and B list the same entries but for letter case.
SameButCase(A, B) ==
    /\ A.state = "ok" /\ B.state = "ok"
    /\ Len(A.entries) = Len(B.entries)
    /\ \A i \in 1..Len(A.entries) : ToLower(A.entries[i]) = ToLower(B.entries[i])

\* C20: getAllowlist returns an error and no keys when the object cannot
\* be opened, read or parsed; no error and an empty set for an empty
\* payload; otherwise the keys are the lower-case forms of the entries, so
\* that objects differing in letter case only give the same set and the
\* lookup of a hex-encoded hash does not depend on the case in the file.
C20_Allowlist ==
    LET r == getAllowlist(bucket) IN
    /\ bucket.state # "ok" => r.err # "nil" /\ r.keys = {}
    /\ bucket.state = "ok" =>
          /\ r.err = "nil"
          /\ bucket.entries = <<>> => r.keys = {}
          /\ r.keys = {ToLower(bucket.entries[i]) : i \in 1..Len(bucket.entries)}
          /\ \A k \in r.keys : ToLower(k) = k
          /\ \A B \in Objects :
                SameButCase(bucket, B) => getAllowlist(B).keys = r.keys
    /\ IsSign /\ out.hashErr # "none" /\ out.env.BUCKET # "" =>
          (out.hashErr = "nil" <=> InAllowlist(out.obj, out.req.Hash))

\* Hash 0xab is accepted against an object that lists it as "AB".
C20_Witness ==
    /\ IsSign
    /\ out.obj = bucket
    /\ bucket.entries = << <<"A", "B">> >>
    /\ getAllowlist(bucket).keys = {<<"a", "b">>}
    /\ out.env.VERIFY_SIGN_HASH = "true"
    /\ out.req.Hash = H1
    /\ out.hashErr = "nil"
    /\ SignSucceeded

-----------------------------------------------------------------------------
(* Properties of the signature check.                                      *)

\* validSeedSignature ran its loop on the request of the last outcome.
SignatureTried ==
    /\ IsSign
    /\ \E i \in 1..Len(out.steps) : out.steps[i] = "signature"
    /\ ~out.ident.certErr

\* What the loop did on that request.
SignatureLoop ==
    LET seed == SeedWithHash(out.req) IN
    verifyWithCerts(candidateCerts(out.env, out.ident, seed), seed,
                    out.req.Signature)

\* The certificate decodes, holds an RSA key and verifies the signature of
\* the last request over the seed with its hash.
Usable(cert) ==
    /\ cert.Data.kind \notin {"notpem", "badx509", "ec"}
    /\ out.req.Signature.key = cert.Data.key
    /\ out.req.Signature.msg = MarshalSeed(SeedWithHash(out.req))

\* C23: the certificates are tried in a fixed order: the current ones in
\* the order App Identity returned them, then those embedded in the seed;
\* an embedded one is tried only when VERIFY_SEED_SIGNATURE_FALLBACK is
\* "true" and only after every current one.
C23_CurrentCertsFirst ==
    SignatureTried =>
        LET cur == out.ident.certs
            emb == out.req.Seed.Certs
            tried == SignatureLoop.tried
        IN \A i \in 1..Len(tried) :
              IF i <= Len(cur) THEN tried[i] = cur[i]
              ELSE /\ out.env.VERIFY_SEED_SIGNATURE_FALLBACK = "true"
                   /\ i - Len(cur) <= Len(emb)
                   /\ tried[i] = emb[i - Len(cur)]

\* Two current certificates fail, then the first embedded one verifies
\* while the second, which would verify too, is not reached.
C23_Witness ==
    /\ SignatureTried
    /\ out.env.VERIFY_SEED_SIGNATURE_FALLBACK = "true"
    /\ out.ident.certs = <<Cert("ec", "k1"), Cert("rsa", "k2")>>
    /\ out.req.Seed.Certs = <<Cert("rsa", "k1"), Cert("rsa", "k1")>>
    /\ out.req.Signature.key = "k1"
    /\ Len(SignatureLoop.tried) = 3
    /\ SignSucceeded

\* C24: validSeedSignature succeeds exactly when some candidate is usable
\* and fails with the signature error otherwise, an empty list included;
\* certificates that do not decode or hold no RSA key are skipped, so the
\* result is the result on the list without them; the loop stops at the
\* first usable candidate.
C24_FirstMatch ==
    SignatureTried =>
        LET seed == SeedWithHash(out.req)
            list == candidateCerts(out.env, out.ident, seed)
            loop == SignatureLoop
            hits == {i \in 1..Len(list) : Usable(list[i])}
            decodable == SelectSeq(list, LAMBDA c : c.Data.kind = "rsa")
        IN /\ out.seedErr \in {"nil", "signature"}
           /\ out.seedErr = "nil" <=> hits # {}
           /\ loop.ok <=> out.seedErr = "nil"
           /\ verifyWithCerts(decodable, seed, out.req.Signature).ok = loop.ok
           /\ hits # {} =>
                 /\ Len(loop.tried) \in hits
                 /\ \A i \in hits : Len(loop.tried) <= i
           /\ hits = {} => loop.tried = list

\* A certificate that does not decode and one without an RSA key come
\* first, and the one after them verifies.
C24_Witness ==
    /\ SignatureTried
    /\ out.env.VERIFY_SEED_SIGNATURE_FALLBACK = "true"
    /\ out.ident.certs = <<Cert("notpem", "k1"), Cert("ec", "k1")>>
    /\ out.req.Seed.Certs = <<Cert("rsa", "k1"), Cert("rsa", "k2")>>
    /\ out.req.Signature.key = "k1"
    /\ out.seedErr = "nil"
    /\ Len(SignatureLoop.tried) = 3

-----------------------------------------------------------------------------
(* Properties of issuance.                                                 *)

\* C29: the Issued of an issued seed is the clock of the service when it
\* handled the request and its Username is the user of the context; the
\* response to a payload is the response to the payload reduced to its
\* Hash, so no other member of the payload reaches the seed.
C29_IssuerSetsTimeAndIdentity ==
    IsSeed =>
        /\ SeedIssued =>
              /\ out.resp.Seed.Issued = out.t
              /\ out.resp.Seed.Username = out.user.name
        /\ out.body.state = "ok" =>
              out.resp = SeedServeHTTP(out.env, out.t, out.obj, out.ident,
                                       SeedBody(out.body.req.Hash), out.user)

\* A payload naming another user and a later time is answered, at hour 1,
\* with a seed for the authenticated user issued at hour 1.
C29_Witness ==
    /\ IsSeed
    /\ SeedIssued
    /\ out.body \in ForgedBodies
    /\ out.t = 1
    /\ out.body.req.Issued # out.t
    /\ out.body.req.Username # out.user.name
    /\ out.resp.Seed.Issued = 1
    /\ out.resp.Seed.Username = <<"b", "o", "b">>

-----------------------------------------------------------------------------
(* Properties of the request /sign returns.                                *)

\* C30: the SignRequest ProcessSignRequest returns is the request as
\* unmarshalSignRequest parsed it from the body: its Seed, the Hash of the
\* Seed included, and its Signature are not changed by validSignRequest
\* putting the request's hash into the seed it verifies.
C30_RequestNotMutated ==
    (IsSign /\ ~SignConfigError) =>
        /\ out.req = unmarshalSignRequest(out.body).req
        /\ out.body.state = "ok" =>
              /\ out.req.Seed = out.body.req.Seed
              /\ out.req.Seed.Hash = out.body.req.Seed.Hash
              /\ out.req.Signature = out.body.req.Signature

\* The signature was verified over the seed with the request's hash, and
\* the seed of the returned request still has no hash.
C30_Witness ==
    /\ SignatureTried
    /\ SignSucceeded
    /\ out.body.req.Hash = H1
    /\ out.body.req.Seed.Hash = NilBytes
    /\ out.req.Seed.Hash = NilBytes
    /\ out.req.Signature.msg = MarshalSeed(SeedWithHash(out.req))

-----------------------------------------------------------------------------
(* Properties of requests handled at the same time.                        *)

\* Handler i has called getAllowlist for the request it serves.
HasFetched(i) ==
    /\ inflight[i].pc \in {"fetched", "done"}
    /\ inflight[i].opened # NoObject

\* Handler i makes its call of getAllowlist in this step.
Loads(i) ==
    /\ inflight[i].pc = "idle"
    /\ inflight'[i].pc = "fetched"

HashEnforced(c) ==
    IF c.endpoint = "seed" THEN c.env.VERIFY_SEED_HASH = "true"
    ELSE c.env.VERIFY_SIGN_HASH = "true"

-----------------------------------------------------------------------------
(* Properties of the installer.                                            *)

\* writeSeed has resolved the identity: the partition is mounted and the
\* image is hashed.
IdentityResolved ==
    /\ install.pc # "idle"
    /\ install.err # "errInput"
    /\ install.err # "errFile"

\* seedRequest has returned on the answer of client.Do.
Classified ==
    /\ install.pc = "done"
    /\ install.requests = 1

\* C28: username returns the name of the current user, and the value of
\* SUDO_USER in its place when that name is "root"; it fails with errUser
\* when the current user cannot be obtained and with errEmptyUser when the
\* name it would return is empty, so a nil error never comes with an empty
\* name.
C28_Username ==
    IdentityResolved =>
        LET cur == install.cur
            u == install.user
            name == IF cur.name = <<"r", "o", "o", "t">> THEN install.sudoUser
                    ELSE cur.name
        IN /\ cur.err => u.err = "errUser"
           /\ (~cur.err /\ name = <<>>) => u.err = "errEmptyUser"
           /\ (~cur.err /\ name # <<>>) => (u.err = "nil" /\ u.name = name)
           /\ u.err = "nil" => u.name # <<>>
           /\ (u.err # "nil") = (install.err = "errUser")

\* Run under sudo: the current user is root and the name returned is the
\* one SUDO_USER holds.
C28_Witness ==
    /\ IdentityResolved
    /\ install.cur = [err |-> FALSE, name |-> <<"r", "o", "o", "t">>]
    /\ install.sudoUser = <<"b", "o", "b">>
    /\ install.user = [name |-> <<"b", "o", "b">>, err |-> "nil"]
    /\ install.pc = "posted"

\* C25: seedRequest classifies the answer in this order: a failure of
\* client.Do is errPost; a body holding "not in allowlist" is errResponse,
\* whether or not it decodes; a body that does not decode is errFormat; a
\* decoded ErrorCode other than success is errSeed; only then is the
\* decoded response returned, so a returned response has ErrorCode success;
\* and an answer that never arrived or could not be read is never
\* errResponse.
C25_ReplyPrecedence ==
    Classified =>
        LET d == install.doer
            sr == install.sr
            listed == Contains(d.body.words, <<"not", "in", "allowlist">>)
            r == UnmarshalSeedResponse(d.body)
        IN /\ d.err => sr.err = "errPost"
           /\ (d.err \/ d.readErr) => sr.err # "errResponse"
           /\ (~d.err /\ ~d.readErr) =>
                 /\ listed => sr.err = "errResponse"
                 /\ (~listed /\ r.err # "nil") => sr.err = "errFormat"
                 /\ (~listed /\ r.err = "nil"
                             /\ r.resp.ErrorCode # StatusSuccess)
                       => sr.err = "errSeed"
                 /\ (~listed /\ r.err = "nil"
                             /\ r.resp.ErrorCode = StatusSuccess)
                       => (sr.err = "nil" /\ sr.resp = r.resp)
           /\ sr.err = "nil" => sr.resp.ErrorCode = StatusSuccess
           /\ sr.err # "nil" => sr.resp = ZeroSeedResponse

\* The service refuses the hash with its toggle on and a non-empty
\* allowlist: the body prints the allowlist map, quotes included, so it is
\* not JSON, and the answer is errResponse, not errFormat.
C25_Witness ==
    /\ Classified
    /\ ~install.doer.err
    /\ ~install.doer.readErr
    /\ install.hash = H3
    /\ bucket = Allowlisted
    /\ install.doer = ServerReply(StrictEnv, now, bucket, signer, H3,
                                  install.user.name)
    /\ ~install.doer.body.json.valid
    /\ install.sr.err = "errResponse"
    /\ install.err = "errDownload"

\* C26: the Seed and the Signature decoded from the seed.json that
\* writeSeed wrote are the Seed and the Signature of the SeedResponse the
\* server marshalled into its reply, and the file holds these two members
\* and no other.
C26_SeedFileRoundTrip ==
    (install.pc = "done" /\ install.err = "nil") =>
        /\ install.disk.state = "written"
        /\ DOMAIN install.disk.content = {"Seed", "Signature"}
        /\ UnmarshalSeed(install.disk.content.Seed) = install.doer.sent.Seed
        /\ UnmarshalSignature(install.disk.content.Signature)
              = install.doer.sent.Signature
        /\ install.doer.sent.ErrorCode = StatusSuccess

\* A seed issued after hour 0 to bob for an allowlisted image, signed and
\* carrying a certificate, is on the partition as the service returned it.
C26_Witness ==
    /\ install.pc = "done"
    /\ install.err = "nil"
    /\ install.hash = H1
    /\ install.doer.sent.Seed.Issued > 0
    /\ install.doer.sent.Seed.Username = <<"b", "o", "b">>
    /\ install.doer.sent.Seed.Certs # <<>>
    /\ install.doer.sent.Signature # ZeroSignature
    /\ install.disk.content.Seed.Hash.null
    /\ UnmarshalSeed(install.disk.content.Seed) = install.doer.sent.Seed

\* C27: one call of writeSeed posts at most one seed request; when the
\* mount check, the hash, the identity, the connection or the request
\* fails, seed.json is what it was before the call, and it is not touched
\* before seedRequest has returned.
C27_SingleRoundTrip ==
    install.pc # "idle" =>
        /\ install.requests <= 1
        /\ install.pc \in {"posted", "replied"} => install.disk = install.before
        /\ (/\ install.pc = "done"
            /\ install.err \in {"errInput", "errFile", "errUser", "errConnect",
                                "errDownload"})
              => install.disk = install.before
        /\ (install.pc = "done" /\ install.requests = 0) => install.err # "nil"

\* A second call fails at its request after a first call wrote the file:
\* one request was posted and the file of the first call is still there.
C27_Witness ==
    /\ install.pc = "done"
    /\ install.err = "errDownload"
    /\ install.requests = 1
    /\ install.sr.err = "errPost"
    /\ install.before.state = "written"
    /\ install.disk = install.before

-----------------------------------------------------------------------------
(* Properties of the validity window.                                      *)

\* C33: with VERIFY_SEED "true", an identity of at least 3 characters and a
\* validity duration that is set and parses, validSeed lets the seed
\* through its temporal check exactly when Issued <= now <= Issued +
\* duration; it answers "expired" only when now is after Issued + duration
\* and "issued in the future" only when Issued is after now.
C33_ValidityWindow ==
    (/\ SeedChecked
     /\ out.env.VERIFY_SEED = "true"
     /\ Len(out.req.Seed.Username) >= 3
     /\ ValidityConfigured)
       => LET issued == out.req.Seed.Issued
              expires == issued + ParseDuration(out.env.SEED_VALIDITY_DURATION).d
          IN /\ (out.seedErr \notin {"future", "expired"})
                    = (issued <= out.t /\ out.t <= expires)
             /\ out.seedErr = "expired" => out.t > expires
             /\ out.seedErr = "future" => issued > out.t
             /\ out.seedErr \in {"future", "expired"}
                    => out.resp.ErrorCode = StatusSignError

\* A seed issued at hour 1 and presented at hour 2, the instant its
\* validity of one hour ends, is accepted.
C33_Witness ==
    /\ SeedChecked
    /\ out.env.VERIFY_SEED = "true"
    /\ out.env.SEED_VALIDITY_DURATION = "1h"
    /\ Len(out.req.Seed.Username) >= 3
    /\ out.req.Seed.Issued = 1
    /\ out.t = 2
    /\ out.seedErr = "nil"
    /\ SignSucceeded

-----------------------------------------------------------------------------
(* Properties of a seed carried from /seed to /sign.                       *)

\* C34: a seed that /seed issued to a non-empty identity, presented to
\* /sign as it was issued, with the hash it was requested for (which the
\* allowlist holds), a well-formed hardware identifier and a non-empty
\* path, under every toggle "true", while the clock is within the validity
\* duration and the certificate of the signing key is among the current
\* ones, passes validSignRequest.
C34_EndToEnd ==
    (/\ IsSign
     /\ seedFile.held
     /\ Len(seedFile.Seed.Username) >= 1
     /\ out.body.state = "ok"
     /\ out.body.req.Seed = seedFile.Seed
     /\ out.body.req.Signature = seedFile.Signature
     /\ MarshalBytes(out.body.req.Hash) = seedFile.Signature.msg.Hash
     /\ InAllowlist(out.obj, out.body.req.Hash)
     /\ macsError(out.body.req.Mac) = "nil"
     /\ Len(out.body.req.Path) >= 1
     /\ out.env = StrictEnv
     /\ seedFile.Seed.Issued <= out.t
     /\ out.t <= seedFile.Seed.Issued + ParseDuration(out.env.SEED_VALIDITY_DURATION).d
     /\ ~out.ident.certErr
     /\ \E i \in 1..Len(out.ident.certs) :
           out.ident.certs[i].Data.key = seedFile.Signature.key)
       => out.validErr = "nil"

\* /seed issued a seed to the user "ab" for an allowlisted hash; presented
\* in the same hour with that hash, while the signing certificate is
\* current, it is refused by /sign for its identity.
C34_ShortIdentityRefused ==
    /\ IsSign
    /\ seedFile.held
    /\ seedFile.Seed.Username = <<"a", "b">>
    /\ out.body.req.Seed = seedFile.Seed
    /\ out.body.req.Signature = seedFile.Signature
    /\ out.body.req.Hash = H1
    /\ MarshalBytes(H1) = seedFile.Signature.msg.Hash
    /\ InAllowlist(out.obj, H1)
    /\ out.env = StrictEnv
    /\ out.t = seedFile.Seed.Issued
    /\ out.validErr = "username"
    /\ out.resp.ErrorCode = StatusSignError

-----------------------------------------------------------------------------
(* Properties of the client's reading of a /seed rejection.                *)

\* The /seed handler rejected the request because its hash is not in the
\* allowlist.
RejectedForHash ==
    /\ out.resp.http = 500
    /\ out.resp.Status = "not_in_allowlist"

\* C35: whenever the /seed handler has answered, the client's seedRequest
\* reports errResponse for the answer exactly when the handler rejected the
\* request because its hash is not in the allowlist; every other rejection
\* (an unreadable or malformed body, no user, an allowlist that cannot be
\* fetched, a signing failure) and every success is classified otherwise.
C35_AllowlistRejection ==
    IsSeed =>
        /\ (clientSeedRequest(out.resp).err = "errResponse") = RejectedForHash
        /\ RejectedForHash =>
               /\ out.env.VERIFY_SEED_HASH = "true"
               /\ out.body.state = "ok"
               /\ ~InAllowlist(out.obj, out.body.req.Hash)

\* A hash missing from a non-empty allowlist is rejected by the handler and
\* the client reports errResponse.
C35_Witness ==
    /\ IsSeed
    /\ RejectedForHash
    /\ out.obj = Allowlisted
    /\ out.body.req.Hash = H3
    /\ clientSeedRequest(out.resp).err = "errResponse"

\* A rejection for another reason reaches the client as an error that is
\* not errResponse.
C35_OtherRejection ==
    /\ IsSeed
    /\ out.resp.http = 500
    /\ ~RejectedForHash
    /\ clientSeedRequest(out.resp).err \in {"errFormat", "errSeed"}

-----------------------------------------------------------------------------
(* Properties of the response of ProcessSignRequest.                       *)

\* ProcessSignRequest was reached: the configuration of /sign was read.
Processed == IsSign /\ ~SignConfigError

\* C36: ProcessSignRequest always returns a response, and its SignedURL is
\* non-empty only when ErrorCode is success.  A body that does not parse is
\* answered with the code of unmarshalSignRequest and no URL; a request that
\* validSignRequest refuses, and one whose URL cannot be signed because the
\* service account or the platform call fails, is answered with
\* StatusSignError and no URL.
C36_URLOnlyOnSuccess ==
    Processed =>
        /\ out.resp.ErrorCode \in {StatusSuccess, StatusReqUnreadable,
                                   StatusJSONError, StatusSignError}
        /\ ~out.resp.SignedURL.empty => out.resp.ErrorCode = StatusSuccess
        /\ out.body.state # "ok"
              => /\ out.resp.ErrorCode \in {StatusReqUnreadable, StatusJSONError}
                 /\ out.resp.SignedURL = EmptyURL
        /\ (out.body.state = "ok" /\ out.validErr # "nil")
              => /\ out.resp.ErrorCode = StatusSignError
                 /\ out.resp.SignedURL = EmptyURL
        /\ (out.validErr = "nil" /\ out.platform \in {"service_account", "signed_url"})
              => /\ out.resp.ErrorCode = StatusSignError
                 /\ out.resp.SignedURL = EmptyURL
        /\ (out.validErr = "nil" /\ out.platform \notin {"service_account", "signed_url"})
              => /\ out.resp.ErrorCode = StatusSuccess
                 /\ ~out.resp.SignedURL.empty

\* A request that passes validation while the service account cannot be
\* resolved is answered with StatusSignError and no URL.
C36_Witness ==
    /\ Processed
    /\ out.validErr = "nil"
    /\ out.platform = "service_account"
    /\ out.resp.ErrorCode = StatusSignError
    /\ out.resp.SignedURL = EmptyURL

\* A request with an expired seed is answered with StatusSignError and no
\* URL.
C36_RefusedWitness ==
    /\ Processed
    /\ out.body.state = "ok"
    /\ out.validErr = "expired"
    /\ out.resp.ErrorCode = StatusSignError
    /\ out.resp.SignedURL = EmptyURL

\* A request that passes validation while storage.SignedURL fails is
\* answered with no URL.
C36_PlatformWitness ==
    /\ Processed
    /\ out.platform = "signed_url"
    /\ out.validErr = "nil"
    /\ out.resp.SignedURL = EmptyURL

-----------------------------------------------------------------------------
(* Properties of the write command.                                        *)

IsExecute == write.op = "Execute"

\* The positions of the calls named `name` in the trace of the last call.
Positions(name) == {i \in 1..Len(write.calls) : write.calls[i].call = name}

\* The calls made to the installer and, through it, to the devices.
InstallerCalls ==
    {"newInstaller", "Retrieve", "Prepare", "Provision", "Finalize"}

\* No device was searched for, and the installer was not touched.
NothingStarted ==
    /\ ~write.ran
    /\ write.calls = <<>>

\* C31 as amended: with --all and --show_fixed both given Execute returns
\* ExitFailure without invoking run, so nothing is searched, wiped or
\* written; with no device named and no --all it returns without invoking
\* run, with ExitUsageError when the log file could be opened and with
\* ExitFailure when it could not.
C31_FlagChecks ==
    IsExecute =>
        /\ (write.c.allDrives /\ write.c.listFixed)
              => /\ NothingStarted
                 /\ write.exit = "ExitFailure"
        /\ (Len(write.args) = 0 /\ ~write.c.allDrives)
              => /\ NothingStarted
                 /\ write.exit = IF write.env.logOk THEN "ExitUsageError"
                                 ELSE "ExitFailure"

\* C31 as stated: with no device named and no --all the exit status is the
\* usage error, whatever else happens.
C31_AsStated ==
    IsExecute =>
        /\ (write.c.allDrives /\ write.c.listFixed)
              => /\ NothingStarted
                 /\ write.exit = "ExitFailure"
        /\ (Len(write.args) = 0 /\ ~write.c.allDrives)
              => /\ NothingStarted
                 /\ write.exit = "ExitUsageError"

\* --all and --show_fixed with a device named, on a machine where run would
\* have provisioned the available devices: nothing is started.
C31_Witness ==
    /\ IsExecute
    /\ write.c.allDrives /\ write.c.listFixed
    /\ write.args = <<"sda">>
    /\ write.env.logOk /\ ~write.env.configErr /\ write.env.elevated
    /\ ~write.env.searchErr
    /\ Len(write.env.available) = 2
    /\ write.plan.step = "none"
    /\ NothingStarted
    /\ write.exit = "ExitFailure"

\* No device named and no --all, with a log file that opens: usage error.
C31_UsageWitness ==
    /\ IsExecute
    /\ write.args = <<>> /\ ~write.c.allDrives
    /\ write.env.logOk
    /\ NothingStarted
    /\ write.exit = "ExitUsageError"

\* No device named and no --all, with a log file that cannot be opened.
C31_LogWitness ==
    /\ IsExecute
    /\ write.args = <<>> /\ ~write.c.allDrives
    /\ ~write.env.logOk
    /\ write.exit = "ExitFailure"

\* newInstaller was called and returned an installer.
InstallerCreated ==
    /\ IsExecute
    /\ Positions("newInstaller") # {}
    /\ write.plan.step # "newInstaller"

\* The call at position i of the trace failed.
FailedAt(i) ==
    /\ write.calls[i].call = write.plan.step
    /\ write.calls[i].dev = write.plan.dev

\* C32: once the installer has been created Finalize is invoked exactly
\* once, as the last call, after every Retrieve, Prepare and Provision,
\* whether or not one of them failed; when Finalize fails the error run
\* returns wraps errFinalize, also when an earlier step had failed.  Without
\* an installer Finalize is not invoked.
C32_FinalizeOnce ==
    IsExecute =>
        /\ InstallerCreated
              => /\ Cardinality(Positions("Finalize")) = 1
                 /\ write.calls[Len(write.calls)].call = "Finalize"
                 /\ write.plan.finalize
                       => /\ write.err.wraps = "errFinalize"
                          /\ write.exit = "ExitFailure"
                 /\ ~write.plan.finalize
                       => \A i \in 1..Len(write.calls) :
                             FailedAt(i) => write.err.wraps = "err" \o write.plan.step
        /\ ~InstallerCreated => Positions("Finalize") = {}

\* Provision fails on the second device and Finalize fails after it: the
\* error wraps errFinalize and quotes the provision error.
C32_Witness ==
    /\ InstallerCreated
    /\ write.plan = [step |-> "Provision", dev |-> "sdb", finalize |-> TRUE]
    /\ Call("Provision", "sdb") \in {write.calls[i] : i \in 1..Len(write.calls)}
    /\ Cardinality(Positions("Finalize")) = 1
    /\ write.calls[Len(write.calls)].call = "Finalize"
    /\ write.err.wraps = "errFinalize"
    /\ "errProvision" \in write.err.text

\* C37: in a run that created the installer, Retrieve is called exactly
\* once and before every Prepare and Provision, whatever the number of
\* targets; every Provision directly follows a Prepare of the same device
\* that succeeded; and after the first call that fails no device is
\* prepared or provisioned any more: Finalize follows it at once.
C37_StepOrder ==
    InstallerCreated =>
        /\ Cardinality(Positions("Retrieve")) = 1
        /\ \A i \in Positions("Prepare") \cup Positions("Provision") :
              \E j \in Positions("Retrieve") : j < i
        /\ \A i \in Positions("Provision") :
              /\ i > 1
              /\ write.calls[i - 1] = Call("Prepare", write.calls[i].dev)
              /\ ~FailedAt(i - 1)
        /\ \A i \in 1..Len(write.calls) :
              (write.calls[i].call \in {"Retrieve", "Prepare", "Provision"}
               /\ FailedAt(i))
                 => /\ i + 1 = Len(write.calls)
                    /\ write.calls[i + 1].call = "Finalize"

\* Two targets and Prepare fails on the first: it is not provisioned and
\* the second is not touched.
C37_Witness ==
    /\ InstallerCreated
    /\ write.args = <<"sda", "sdb">> /\ ~write.c.allDrives
    /\ write.plan.step = "Prepare" /\ write.plan.dev = "sda"
    /\ Cardinality(Positions("Retrieve")) = 1
    /\ Positions("Prepare") # {}
    /\ Positions("Provision") = {}
    /\ \A i \in 1..Len(write.calls) : write.calls[i].dev # "sdb"
    /\ write.err.wraps = "errPrepare"

\* Two targets provisioned after a single Retrieve.
C37_AllProvisioned ==
    /\ InstallerCreated
    /\ write.args = <<"sda", "sdb">> /\ ~write.c.allDrives
    /\ Cardinality(Positions("Retrieve")) = 1
    /\ Cardinality(Positions("Provision")) = 2
    /\ write.exit = "ExitSuccess"

\* The search of run returned the available devices.
Searched ==
    /\ IsExecute /\ write.ran
    /\ ~write.env.configErr
    /\ write.c.update \/ write.env.elevated
    /\ ~write.env.searchErr

\* The identifiers requested: the arguments, or every available device
\* under --all.
Requested == confDevices(write.c, write.args, write.env.available)

\* Some requested identifier is not among the available devices.
SomeMissing ==
    \E i \in 1..Len(Requested) : ~InList(Requested[i], write.env.available)

\* C38: when a requested identifier is not among the devices the search
\* reported, run fails with errDevice before the installer is created: no
\* call is made to the installer or to a device.  In every run, the devices
\* prepared and provisioned were both requested and reported available.
C38_OnlyAvailable ==
    Searched =>
        /\ SomeMissing
              => /\ write.err.wraps = "errDevice"
                 /\ \A i \in 1..Len(write.calls) :
                       write.calls[i].call \notin InstallerCalls
        /\ \A i \in Positions("Prepare") \cup Positions("Provision") :
              /\ InList(write.calls[i].dev, Requested)
              /\ InList(write.calls[i].dev, write.env.available)

\* Two devices requested, one of them available: the device error, and the
\* available one is not touched either.
C38_Witness ==
    /\ Searched
    /\ write.args = <<"sda", "sdb">> /\ ~write.c.allDrives
    /\ write.env.available = <<"sda">>
    /\ write.plan.step = "none"
    /\ write.err.wraps = "errDevice"
    /\ write.calls = <<Call("search", "")>>
    /\ write.exit = "ExitFailure"

-----------------------------------------------------------------------------
(* Properties of the installer's Finalize and provisionISO.                *)

IsFinalize == write.op = "Finalize"
IsProvisionISO == write.op = "provisionISO"

\* C39: after Finalize returns the cache directory does not exist, whatever
\* the outcome of the dismount and eject steps.
C39_CacheRemoved ==
    IsFinalize => ~write.cached

\* The dismount of the only device fails: Finalize returns errDevice
\* without calling os.RemoveAll, and the cache directory is still there.
C39_CacheLeft ==
    /\ IsFinalize
    /\ write.devices = <<"sda">>
    /\ write.dismount
    /\ write.f.detect = {} /\ write.f.dismount = {"sda"}
    /\ write.before
    /\ write.err.wraps = "errDevice"
    /\ Positions("RemoveAll") = {}
    /\ write.cached

\* The cache is gone after Finalize exactly when Finalize returned nil or
\* there was no cache to begin with.
CacheRemovedOnSuccess ==
    IsFinalize => (~write.cached) = (write.err.nil \/ ~write.before)

\* C40: when the ISO was mounted the handler is dismounted exactly once, as
\* the last call of provisionISO, on every return path, and a failure of
\* the dismount is the error returned (wrapped, when another error came
\* first); when the mount failed there is no dismount.  writeSeed is called
\* only with a seed server configured and after writeISO succeeded.
C40_DismountOnce ==
    IsProvisionISO =>
        /\ ~write.f.mount
              => /\ Cardinality(Positions("Dismount")) = 1
                 /\ write.calls[Len(write.calls)].call = "Dismount"
                 /\ write.f.dismount
                       => /\ ~write.err.nil
                          /\ write.err.wraps = "Dismount"
        /\ write.f.mount
              => /\ Positions("Dismount") = {}
                 /\ write.err.wraps = "errMount"
        /\ \A i \in Positions("writeSeed") :
              /\ write.f.seedServer
              /\ ~write.f.writeISO
              /\ \E j \in Positions("writeISO") : j < i

\* writeISO fails and so does the dismount: one dismount, no seed, and the
\* error wraps the dismount error and quotes the provisioning error.
C40_Witness ==
    /\ IsProvisionISO
    /\ ~write.f.mount /\ write.f.writeISO /\ write.f.dismount
    /\ write.f.seedServer
    /\ Cardinality(Positions("Dismount")) = 1
    /\ Positions("writeSeed") = {}
    /\ write.err.wraps = "Dismount"
    /\ "errProvision" \in write.err.text

\* With a seed server configured the seed is written after the ISO.
C40_Seeded ==
    /\ IsProvisionISO
    /\ write.f.seedServer /\ ~write.f.writeSeed
    /\ Positions("writeSeed") # {}
    /\ Cardinality(Positions("Dismount")) = 1
    /\ write.err.nil

====
